---- MODULE Spec2Model ----
(***************************************************************************)
(* Voice-transcription daemon: the command/response state machine          *)
(* (app/state.rs), the command stream that drives it (app/command.rs) and  *)
(* the daemon loop that turns commands into responses (app/mod.rs),        *)
(* connected to a transport by the two bounded channels of                 *)
(* server/src/main.rs.                                                     *)
(***************************************************************************)
EXTENDS Integers, Sequences, FiniteSets, TLC

\* ------------------------------------------------------------------ bounds

\* Number of commands the transport submits during one run of the daemon.
MaxCmds == 4

\* Number of commands sent to the loop body when its arms are followed on
\* their own.
MaxItems == 3

\* Bound on the samples the device callbacks send during one recording, and
\* on the samples one callback batch yields.
MaxSamples == 4
MaxBatch == 2

\* Bounds on the connections a socket listener is offered and on the lines
\* a client writes on one connection.
MaxConns == 2
MaxLines == 2

\* Bound on the tokens the inference engine returns for one job.
MaxTokens == 2

\* Bound on the sentences one transcription is split into.
MaxSentences == 3

\* Bound on the input samples a device delivers to one processor.
MaxFed == 8

\* Bound on the jobs submitted to one transcription worker.
MaxJobs == 3

\* Bounds on the HTTP handlers running at once and on the requests each
\* of them serves.
MaxHandlers == 2
MaxRequests == 2

\* --------------------------------------------------------- program constants

\* handle_stream: bounded(1), the capacity of the state queue.
StateQueueCap == 1

\* crossbeam::channel::bounded(1) for commands and for responses.
CmdChanCap == 1
RespChanCap == 1

\* The rate every processor converts to: from_hz_to_hz(.., 16_000.0).
TargetHz == 16000

\* let exit_code = 0_u8; (never reassigned: the assignments are commented out)
exit_code == 0

\* ------------------------------------------------------------------- values

None == "None"

\* enum Mode { Standard, #[default] LiveTyping }
Modes == {"Standard", "LiveTyping"}
DefaultMode == "LiveTyping"

\* enum Model { #[default] Base, Small, Medium, Large }
DefaultModel == "Base"

\* struct Session { input_device, sample_rate, prompt, model }, all optional.
\* SessionA is Session::new(None, None, None, None); SessionB is the session
\* the unit tests of state.rs build.
SessionA ==
    [input_device |-> None, sample_rate |-> None, prompt |-> None, model |-> None]
SessionB ==
    [input_device |-> "dummy_device", sample_rate |-> "44100",
     prompt |-> "dummy prompt", model |-> "Small"]
Sessions == {SessionA, SessionB}

\* The session of scenario S5: a sample rate no device offers.
SessionC ==
    [input_device |-> None, sample_rate |-> "99999999", prompt |-> None,
     model |-> None]

\* A session that names its device by a part of the device's name.
SessionD ==
    [input_device |-> "dummy", sample_rate |-> None, prompt |-> None,
     model |-> None]

\* A session whose device name no device carries.
SessionE ==
    [input_device |-> "mic", sample_rate |-> None, prompt |-> None,
     model |-> None]

\* The characters of the device names and patterns used here.
chars(n) ==
    CASE n = "dummy_device" ->
           <<"d", "u", "m", "m", "y", "_", "d", "e", "v", "i", "c", "e">>
      [] n = "dummy" -> <<"d", "u", "m", "m", "y">>
      [] n = "mic" -> <<"m", "i", "c">>
      [] n = "" -> <<>>

\* str::contains: pat occurs in hay as a substring.
contains(hay, pat) ==
    \E i \in 0..(Len(hay) - Len(pat)) : SubSeq(hay, i + 1, i + Len(pat)) = pat

\* Session.sample_rate as a number of Hz (u32).
RateHz(r) ==
    CASE r = "44100" -> 44100
      [] r = "99999999" -> 99999999

\* The input devices of the host with the range of sample rates of their
\* supported input config (cpal::default_host().input_devices()).
InputDevices ==
    {[name |-> "dummy_device", min_sample_rate |-> 44100,
      max_sample_rate |-> 48000]}

\* Session::supported_configs: the devices whose name contains the session's
\* input_device (every device when it is None) and whose config range holds
\* the wanted rate: the session's sample_rate, or max(min_sample_rate, 16000)
\* when it is None.
supported_configs(s) ==
    {d \in InputDevices :
        /\ \/ s.input_device = None
           \/ contains(chars(d.name), chars(s.input_device))
        /\ LET want == IF s.sample_rate = None
                        THEN IF d.min_sample_rate > 16000
                             THEN d.min_sample_rate ELSE 16000
                        ELSE RateHz(s.sample_rate)
           IN  ~(d.min_sample_rate > want \/ d.max_sample_rate < want)}

\* enum Audio { #[default] Idle, Started(Session), Stopped(Session) }
Idle == [tag |-> "Idle"]
Started(s) == [tag |-> "Started", session |-> s]
Stopped(s) == [tag |-> "Stopped", session |-> s]

\* RecordingState::default(): audio Idle, mode LiveTyping.
DefaultState == [audio |-> Idle, mode |-> DefaultMode]

\* enum Response { Ack(u128), Nil, Error(String), Exit(u8), NewMode(Mode),
\*                 Transcription { content, mode } }
\* The epoch-millisecond payload of Ack is the wall clock; it is kept abstract.
NowMs == "now_ms"
Nil == [type |-> "nil"]
Ack(n) == [type |-> "ack", data |-> n]
ErrorResp(msg) == [type |-> "error", data |-> msg]
Exit(code) == [type |-> "exit", data |-> code]
NewMode(m) == [type |-> "new_mode", data |-> m]
Transcription(content, m) ==
    [type |-> "transcription", data |-> [content |-> content, mode |-> m]]

\* Response::ack()
ack == Ack(NowMs)

\* enum Plumbing { Start(Session), Stop, Reset, Mode(Mode), Respond(Response),
\*                 Transcribe { audio_data, params } }
Start(s) == [type |-> "start", data |-> s]
Stop == [type |-> "stop"]
Reset == [type |-> "reset"]
Mode(m) == [type |-> "mode", data |-> m]
Respond(r) == [type |-> "respond", data |-> r]
Transcribe(audio_data, params) ==
    [type |-> "transcribe",
     data |-> [audio_data |-> audio_data, params |-> params]]

\* struct TranscriptionParams { model, sample_rate, prompt }, all optional:
\* the parameters of a request that names a model and a prompt.
ParamsB == [model |-> "Small", sample_rate |-> None, prompt |-> "p"]

\* The canned responses a Respond command may carry in this model.
CannedResponses == <<Nil, Transcription("hi", "Standard")>>

\* The commands the transport may submit (a sequence, so that values of
\* different shapes are never compared by a set constructor).
CommandList ==
    <<Start(SessionA), Start(SessionB), Start(SessionC), Stop, Reset,
      Mode("Standard"), Mode("LiveTyping"),
      Respond(CannedResponses[1]), Respond(CannedResponses[2]),
      Transcribe(<<0, 0, 0, 0>>, ParamsB)>>

\* Option<T>
NoneOpt == [some |-> FALSE]
Some(v) == [some |-> TRUE, val |-> v]

\* ------------------------------------------------------ state machine (pure)
\* Each `fn f(&mut self, ..) -> bool` is an operator from the state before
\* to the pair [ok |-> returned bool, st |-> state after].

\* running() as it would be if Stopped(_) also counted as running.
running_or_stopped(st) == st.audio.tag \in {"Started", "Stopped"}

\* RecordingState::running
running(st) == st.audio.tag = "Started"

\* mode() as it would be if it gave the default mode whatever the state.
mode_default(st) == DefaultMode

\* RecordingState::mode
mode(st) == st.mode

\* RecordingState::session
session(st) ==
    IF st.audio.tag \in {"Started", "Stopped"} THEN Some(st.audio.session)
    ELSE NoneOpt

\* RecordingState::prompt
prompt(st) ==
    IF st.audio.tag \in {"Started", "Stopped"} THEN st.audio.session.prompt
    ELSE None

\* start() as it would be without the match on the current audio state.
start_from_any(st, s) == [ok |-> TRUE, st |-> [st EXCEPT !.audio = Started(s)]]

\* RecordingState::start
start(st, s) ==
    IF st.audio.tag \in {"Idle", "Stopped"}
    THEN [ok |-> TRUE, st |-> [st EXCEPT !.audio = Started(s)]]
    ELSE [ok |-> FALSE, st |-> st]

\* stop() as it would be if it dropped the session instead of keeping it.
stop_to_idle(st) ==
    IF st.audio.tag = "Started"
    THEN [ok |-> TRUE, st |-> [st EXCEPT !.audio = Idle]]
    ELSE [ok |-> FALSE, st |-> st]

\* stop() as it would be if a second stop put a stopped session away.
stop_then_idle(st) ==
    CASE st.audio.tag = "Started" ->
           [ok |-> TRUE, st |-> [st EXCEPT !.audio = Stopped(st.audio.session)]]
      [] st.audio.tag = "Stopped" -> [ok |-> TRUE, st |-> [st EXCEPT !.audio = Idle]]
      [] OTHER -> [ok |-> FALSE, st |-> st]

\* RecordingState::stop
stop(st) ==
    IF st.audio.tag = "Started"
    THEN [ok |-> TRUE, st |-> [st EXCEPT !.audio = Stopped(st.audio.session)]]
    ELSE [ok |-> FALSE, st |-> st]

\* RecordingState::change_mode
change_mode(st, m) ==
    IF st.mode = m
    THEN [ok |-> FALSE, st |-> st]
    ELSE [ok |-> TRUE, st |-> [st EXCEPT !.mode = m]]

\* handle() as it would be without the `if !self.running()` guard on Mode.
handle_mode_unguarded(st, cmd) ==
    CASE cmd.type = "start" -> start(st, cmd.data)
      [] cmd.type = "stop" -> stop(st)
      [] cmd.type = "mode" -> change_mode(st, cmd.data)
      [] cmd.type \in {"reset", "respond"} -> [ok |-> TRUE, st |-> st]

\* handle as it would be if Reset put the state back to its default.
handle_reset_clears(st, cmd) ==
    CASE cmd.type = "start" -> start(st, cmd.data)
      [] cmd.type = "stop" -> stop(st)
      [] cmd.type = "mode" /\ ~running(st) -> change_mode(st, cmd.data)
      [] cmd.type = "mode" /\ running(st) -> [ok |-> FALSE, st |-> st]
      [] cmd.type = "reset" -> [ok |-> TRUE, st |-> DefaultState]
      [] cmd.type = "respond" -> [ok |-> TRUE, st |-> st]

\* <RecordingState as State>::handle.  Its match has an arm for Start,
\* Stop, Mode, Reset and Respond and none for Transcribe: on that command
\* the function has no value, here as in the source.
handle(st, cmd) ==
    CASE cmd.type = "start" -> start(st, cmd.data)
      [] cmd.type = "stop" -> stop(st)
      [] cmd.type = "mode" /\ ~running(st) -> change_mode(st, cmd.data)
      [] cmd.type = "mode" /\ running(st) -> [ok |-> FALSE, st |-> st]
      [] cmd.type \in {"reset", "respond"} -> [ok |-> TRUE, st |-> st]

\* The commands the match of handle has an arm for.
HandledKinds == {"start", "stop", "mode", "reset", "respond"}

\* What state.handle(cmd) at line 81 of command.rs gives.  The match of
\* handle has no arm for Transcribe, so nothing in the source fixes its
\* value for that command: either Boolean is taken, with the state left
\* as it was (line 87 counts Transcribe among the commands that do not
\* change the state).
handle_values(st, cmd) ==
    IF cmd.type \in HandledKinds
    THEN {handle(st, cmd)}
    ELSE {[ok |-> b, st |-> st] : b \in BOOLEAN}

\* The body of the closure of CmdStream::run_state_machine from line 81
\* on, h being what state.handle(cmd) gave: `state` is the RecordingState
\* left in place, `yielded` the Option the iterator yields beside the
\* command.  handle has already changed the state when start, stop or
\* change_mode is applied the second time.
closure(initial, cmd, h) ==
    IF h.ok
    THEN LET t == CASE cmd.type = "start" -> start(h.st, cmd.data)
                    [] cmd.type = "stop" -> stop(h.st)
                    [] cmd.type = "mode" /\ ~running(h.st) ->
                           change_mode(h.st, cmd.data)
                    [] OTHER -> [ok |-> FALSE, st |-> h.st]
         IN  IF t.ok
             THEN [state |-> t.st, yielded |-> Some(t.st), h |-> h]
             ELSE IF cmd.type \in {"transcribe", "reset", "respond"}
                  THEN [state |-> t.st, yielded |-> Some(initial),
                        h |-> h]
                  ELSE [state |-> t.st, yielded |-> NoneOpt, h |-> h]
    ELSE [state |-> h.st, yielded |-> NoneOpt, h |-> h]

\* CmdStream::run_state_machine applied to one command: what the closure
\* can leave and yield.
run_state_machine(st, cmd) ==
    {closure(st, cmd, h) : h \in handle_values(st, cmd)}

\* ------------------------------------------------------------ daemon state

VARIABLES
    state,      \* Daemon.state: the RecordingState
    rec,        \* run_loop's `rec`: Option<Recording>
    commands,   \* buffer of the commands channel (transport -> daemon)
    cmdOpen,    \* TRUE while the transport holds a commands sender
    responses,  \* buffer of the responses channel (daemon -> transport)
    respOpen,   \* TRUE while the transport holds the responses receiver
    jobs,       \* buffer of the to_whisper channel (daemon -> worker)
    results,    \* buffer of the whisper_output channel (worker -> daemon)
    worker,     \* where the transcription worker thread stands
    pc,         \* where run_loop stands
    pending,    \* the response run_loop is about to send
    ret,        \* what run_loop returned, None while it runs
    log,        \* history: one entry per command consumed by run_loop
    sent,       \* history: every response put on the responses channel
    issued,     \* history: number of commands the transport submitted
    server,     \* the HTTP server's future: running, or its result Ok, Err
    exit_status \* the status the process ended with, none while it runs

\* The process entry: the server beside run_loop, and the exit.
entryVars == <<server, exit_status>>

daemonVars ==
    <<state, rec, commands, cmdOpen, responses, respOpen, jobs, results,
      worker, pc, pending, ret, log, sent, issued, entryVars>>

\* --------------------------------------------------------- recording state

\* One Recording, from Recording::controlled to the return of stop(), with
\* its capture thread, its sink thread and the device's callback thread.
VARIABLES
    recSess,    \* the Session the Recording was built for
    ctl,        \* Controller: the RecordState under the Notifier's mutex
    caller,     \* where the thread that owns the Recording stands
    cap,        \* where the capture thread stands
    capRes,     \* what the capture thread returned, None while it runs
    stream,     \* the cpal input stream: none, built, playing, dropped
    sinkChan,   \* buffer of the sink's unbounded channel
    sinkPc,     \* where the sink thread stands
    sinkBuf,    \* the Vec the sink thread's collect() has gathered
    stopRes,    \* what stop() returned, once it has
    produced,   \* history: every sample the callbacks sent, in send order
    batches,    \* history: number of callback batches delivered
    atStart,    \* history: stream and batches when start() returned
    asleep,     \* the threads blocked in cvar.wait of the controller
    woken       \* history: the threads a notify has woken

recVars ==
    <<recSess, ctl, caller, cap, capRes, stream, sinkChan, sinkPc, sinkBuf, stopRes,
      produced, batches, atStart, asleep, woken>>

\* The state of a Recording right after Recording::controlled: the
\* controller holds RecordState::default(), both threads are spawned.
RecCreated(s) ==
    /\ recSess = s
    /\ ctl = "Stopped"
    /\ caller = "created"
    /\ cap = "resolve"
    /\ capRes = None
    /\ stream = "none"
    /\ sinkChan = <<>>
    /\ sinkPc = "running"
    /\ sinkBuf = <<>>
    /\ stopRes = NoneOpt
    /\ produced = <<>>
    /\ batches = 0
    /\ atStart = NoneOpt
    /\ asleep = {}
    /\ woken = {}

\* ------------------------------------------------------------ socket state

\* The filesystem-socket transport: the listener thread of
\* receive_instructions, the connection handle_stream is serving, its peer,
\* and the two channels it shares with the consumer of its commands.
VARIABLES
    sockPath,     \* what receive_instructions found at socket_path
    lst,          \* listener thread: none, binding, accept, handling,
                  \* failed, panicked
    served,       \* history: number of connections accepted so far
    client,       \* the peer of the connection: open, half (its writing
                  \* half shut down), deaf (its reading half shut down),
                  \* gone
    nlines,       \* number of lines the peer wrote on this connection
    inbuf,        \* lines the peer wrote that read_thread has not read
    sockCmds,     \* buffer of the csend/crecv channel
    sockResps,    \* buffer of the rsend/rrecv channel
    takenCmd,        \* the command the consumer took and has not answered
    wq,           \* buffer of handle_stream's s/r channel to write_thread
    loopOn,       \* TRUE while handle_stream is in its select loop
    rd,           \* read_thread: running, report, closing, done, err,
                  \* panicked
    wr,           \* write_thread: running, report, closing, done, err
    stateQ,       \* buffer of the state_s/state_r queue
    connState,    \* the socket State the notification thread folds
    notif,        \* notification thread: waiting, ready, failed
    sockCmdOpen,  \* the receiver of the commands channel is alive
    sockRespOpen, \* the sender of the responses channel is alive
    connErr       \* history: the recoverable errors connections ended with

sockVars ==
    <<sockPath, lst, served, client, nlines, inbuf, sockCmds, sockResps,
      takenCmd, wq, loopOn, rd, wr, stateQ, connState, notif, sockCmdOpen,
      sockRespOpen, connErr>>

\* State::new()
NewConnState == [half_closed |-> FALSE, outstanding_messages |-> 0]

\* What can be at socket_path when receive_instructions is called.
\* absent: nothing, in a directory that exists and can be written.
\* stale_socket: a socket file left by an earlier run.
\* readonly_socket: the same in a directory that cannot be written.
\* no_directory: nothing, because the directory does not exist either.
\* readonly_directory: nothing, in a directory that cannot be written.
\* too_long: nothing, at a path longer than a socket address can hold.
\* regular_file, directory: a file that is not a socket.
\* unreadable: a path whose metadata cannot be read.
SocketPaths ==
    {"absent", "stale_socket", "readonly_socket", "no_directory",
     "readonly_directory", "too_long", "regular_file", "directory",
     "unreadable"}

\* receive_instructions, its Result: the match on std::fs::metadata and
\* remove_file(..)?.  Ok is returned before the socket is bound.
receive_instructions(path) ==
    CASE path = "stale_socket" -> "Ok"
      [] path = "readonly_socket" -> "Err"
      [] path \in {"regular_file", "directory"} -> "Err"
      [] path \in {"absent", "no_directory", "readonly_directory",
                   "too_long"} -> "Ok"
      [] path = "unreadable" -> "Err"

\* UnixListener::bind(sock_path) in the listener thread, for the paths
\* receive_instructions lets through, the results it can give: it fails
\* when the directory of the path does not exist or cannot be written and
\* when the path does not fit a socket address; for the other paths it
\* fails when something was put at the path after the check of lines
\* 210-217 (address in use), and binds otherwise.
bind(path) ==
    IF path \in {"no_directory", "readonly_directory", "too_long"}
    THEN {"Err"}
    ELSE {"Ok", "Err"}

\* The connection variables while no connection was accepted yet.
NoConnection ==
    /\ served = 0
    /\ client = "none"
    /\ nlines = 0
    /\ inbuf = 0
    /\ sockCmds = <<>>
    /\ sockResps = <<>>
    /\ takenCmd = NoneOpt
    /\ wq = <<>>
    /\ loopOn = FALSE
    /\ rd = "none"
    /\ wr = "none"
    /\ stateQ = <<>>
    /\ connState = NewConnState
    /\ notif = "none"
    /\ connErr = {}

\* The transport right after receive_instructions returned Ok: both
\* channels exist and the listener thread is spawned and has not bound the
\* socket yet.
SockCreated(path) ==
    /\ sockPath = path
    /\ lst = "binding"
    /\ sockCmdOpen = TRUE
    /\ sockRespOpen = TRUE
    /\ NoConnection

\* receive_instructions returned Err: no channel and no thread exist.
SockRefused(path) ==
    /\ sockPath = path
    /\ lst = "none"
    /\ sockCmdOpen = FALSE
    /\ sockRespOpen = FALSE
    /\ NoConnection

\* ---------------------------------------------------------- strategy state

\* One call of parse_strategy, the value parser of the --strategy flag.
VARIABLES
    psIn,       \* the argument: a string, as its sequence of characters
    psOut       \* the Result it returned, once it has

psVars == <<psIn, psOut>>

\* No call of parse_strategy under way.
PsIdle ==
    /\ psIn = <<>>
    /\ psOut = NoneOpt

\* Whisper::transcribe_audio, followed on its own.
VARIABLES
    tokens,     \* what the inference engine returned: full's code, the tokens
    timings     \* what transcribe_audio returned, once it has

taVars == <<tokens, timings>>

\* No call of transcribe_audio under way.
TaIdle ==
    /\ tokens = [full |-> 0, toks |-> <<>>]
    /\ timings = NoneOpt

\* Transcription::process, followed on its own.
VARIABLES
    sentences,  \* the sentences of a transcription, before the filter
    processed   \* what process returned, once it has

tpVars == <<sentences, processed>>

\* No call of process under way.
TpIdle ==
    /\ sentences = <<>>
    /\ processed = NoneOpt

\* One Processor fed by the device callback, followed on its own.
VARIABLES
    srcRate,    \* config.sample_rate of the stream
    channels,   \* CHANNELS of the Processor
    fed,        \* input samples the callbacks were given so far
    emitted,    \* samples sent to the sink so far
    unsent,     \* samples of the callback's batch not yet attempted
    sinkOpen,   \* the receiver of the sink channel is alive
    dspPc,      \* the callback: running, or panicked
    send_failures, \* history: sends of a sample that failed
    errors_sent \* history: AudioMessage::Error messages put on the channel

dspVars ==
    <<srcRate, channels, fed, emitted, unsent, sinkOpen, dspPc,
      send_failures, errors_sent>>

\* A processor that was given nothing.
DspIdle ==
    /\ srcRate = TargetHz
    /\ channels = 1
    /\ fed = 0
    /\ emitted = 0
    /\ unsent = 0
    /\ sinkOpen = TRUE
    /\ dspPc = "running"
    /\ send_failures = 0
    /\ errors_sent = 0

\* The variables of the functions that are followed on their own.
pureVars == <<psVars, taVars, tpVars, dspVars>>

PureIdle ==
    /\ PsIdle
    /\ TaIdle
    /\ TpIdle
    /\ DspIdle

\* The transcription worker and the code that submits a job to it and takes
\* its result, followed on their own.
VARIABLES
    debug_log,       \* TRUE when the log level lets log::debug! evaluate
                     \* its arguments
    from_recordings, \* buffer of the jobs channel: jobs [id, model,
                     \* sample_rate]
    whisper_output,  \* buffer of the results channel: [id, outcome]
    wkPc,            \* worker: recv, transcribe, exited, load_failed,
                     \*         send_failed, panicked, duration_panicked
    wkJob,           \* the job the worker is processing
    whispers,        \* the worker's cache: the models that have a context
    subPc,           \* submitter: ready, waiting, returned
    submitted,       \* history: number of jobs sent to the worker
    constructed,     \* history: the models Whisper::new built, in order
    pulled,          \* history: the jobs the worker took, in order
    results_sent,    \* history: the results the worker sent, in order
    consumed         \* history: [job, result] for every result taken

wkVars ==
    <<debug_log, from_recordings, whisper_output, wkPc, wkJob, whispers, subPc, submitted,
      constructed, pulled, results_sent, consumed>>

\* The state right after transcription_worker returned its handle: both
\* channels are empty, the cache is empty, the thread waits for a job.
\* The log level is the one the environment of the process set.
WorkerSpawned(level) ==
    /\ debug_log = level
    /\ from_recordings = <<>>
    /\ whisper_output = <<>>
    /\ wkPc = "recv"
    /\ wkJob = NoneOpt
    /\ whispers = {}
    /\ subPc = "ready"
    /\ submitted = 0
    /\ constructed = <<>>
    /\ pulled = <<>>
    /\ results_sent = <<>>
    /\ consumed = <<>>

\* The HTTP handlers sharing one AppEvents, followed on their own with a
\* daemon that answers every command it takes.
VARIABLES
    webPc,        \* per handler: idle, or waiting in self.1.recv()
    webReqs,      \* per handler: number of commands it has sent
    webGot,       \* history, per handler: [own, got] for every response
    webCommands,  \* buffer of the commands channel: [from, n]
    webResponses, \* buffer of the responses channel: the command answered
    webDaemon     \* the command the daemon is answering, if any

webVars == <<webPc, webReqs, webGot, webCommands, webResponses, webDaemon>>

Handlers == 1..MaxHandlers

\* The server right after run_web_server made the channels.
WebIdle ==
    /\ webPc = [h \in Handlers |-> "idle"]
    /\ webReqs = [h \in Handlers |-> 0]
    /\ webGot = [h \in Handlers |-> <<>>]
    /\ webCommands = <<>>
    /\ webResponses = <<>>
    /\ webDaemon = NoneOpt

\* The variables of the units that are followed on their own.
unitVars == <<recVars, sockVars, pureVars, wkVars, webVars>>

\* The units at rest while the daemon is followed.
UnitsIdle ==
    /\ RecCreated(SessionA)
    /\ SockCreated("absent")
    /\ PureIdle
    /\ WorkerSpawned(FALSE)
    /\ WebIdle

vars == <<daemonVars, unitVars>>

\* TranscriptionJob built in the Stop arm: model and prompt come from the
\* session held by the state after the transition.
Job(new_state) ==
    LET s == session(new_state)
    IN  [model |-> IF s.some /\ s.val.model # None THEN s.val.model
                   ELSE DefaultModel,
         prompt |-> prompt(new_state)]

\* TranscriptionJob built in the Transcribe arm: model and prompt come
\* from the parameters of the command.
TranscribeJob(params) ==
    [model |-> IF params.model # None THEN params.model ELSE DefaultModel,
     prompt |-> params.prompt]

\* The receiver of the jobs channel lives as long as the worker thread.
from_recordings_alive == worker = "waiting"

\* Recording::controlled: every fallible step runs inside the spawned capture
\* thread, so the call itself returns Ok(Recording) for every session.
controlled(s) == {[ok |-> TRUE, rec |-> [session |-> s]]}

\* What one iteration of the `for` body of run_loop does with the pair the
\* command stream yielded, up to its first blocking send or its return.
\* Each outcome names the next position, the response to send, the new `rec`,
\* the jobs channel and the return value.
Outcome(p, resp, r, j, v) ==
    [pc |-> p, pending |-> resp, rec |-> r, jobs |-> j, ret |-> v]

\* Plumbing::Start(session) arm, up to the wait inside rec.start()
arm_start(cmd, new_state, r, j) ==
    IF ~running(new_state)
    THEN {Outcome("panicked", NoneOpt, NoneOpt, j, None)}
    ELSE { IF c.ok
           THEN Outcome("starting", NoneOpt, Some(c.rec), j, None)
           ELSE Outcome("send", Some(ErrorResp("recording error")), r, j,
                        None)
           : c \in controlled(cmd.data) }

\* Plumbing::Stop arm, up to the joins inside rec.take().unwrap().stop()
arm_stop(cmd, new_state, r, j) ==
    IF running(new_state) \/ ~r.some
    THEN {Outcome("panicked", NoneOpt, NoneOpt, j, None)}
    ELSE {Outcome("stopping", NoneOpt, NoneOpt, j, None)}

\* Plumbing::Transcribe arm, up to the wait for the worker's result:
\* to_whisper.send(job)? fails once the worker thread is over.
arm_transcribe(cmd, new_state, r, j) ==
    IF from_recordings_alive
    THEN {Outcome("await_result", NoneOpt, r,
                  Append(j, TranscribeJob(cmd.data.params)), None)}
    ELSE {Outcome("returned", NoneOpt, NoneOpt, j, "Err(Send)")}

\* Plumbing::Reset arm: return Ok(true)
arm_reset(cmd, new_state, r, j) ==
    {Outcome("returned", NoneOpt, NoneOpt, j, "Ok(true)")}

\* Plumbing::Mode(_) arm: responses.send(Response::ack())
arm_mode(cmd, new_state, r, j) ==
    {Outcome("send", Some(ack), r, j, None)}

\* The Respond arm as it would be if it acknowledged instead of echoing.
arm_respond_ack(cmd, new_state, r, j) ==
    {Outcome("send", Some(ack), r, j, None)}

\* Plumbing::Respond(response) arm: responses.send(response.clone())
arm_respond(cmd, new_state, r, j) ==
    {Outcome("send", Some(cmd.data), r, j, None)}

\* The None guard as it would be if it continued without sending Nil.
arm_none_silent(cmd, r, j) ==
    {Outcome("recv", NoneOpt, r, j, None)}

\* The `let Some(new_state) = new_state_opt else { send Nil; continue }`
\* guard of the loop body.
arm_none(cmd, r, j) ==
    {Outcome("send", Some(Nil), r, j, None)}

body(cmd, new_state_opt, r, j) ==
    IF ~new_state_opt.some
    THEN arm_none(cmd, r, j)
    ELSE CASE cmd.type = "start" -> arm_start(cmd, new_state_opt.val, r, j)
           [] cmd.type = "stop" -> arm_stop(cmd, new_state_opt.val, r, j)
           [] cmd.type = "reset" -> arm_reset(cmd, new_state_opt.val, r, j)
           [] cmd.type = "mode" -> arm_mode(cmd, new_state_opt.val, r, j)
           [] cmd.type = "respond" -> arm_respond(cmd, new_state_opt.val, r, j)
           [] cmd.type = "transcribe" ->
                  arm_transcribe(cmd, new_state_opt.val, r, j)

\* Plumbing::as_response
as_response(cmd) ==
    CASE cmd.type = "mode" -> Some(NewMode(cmd.data))
      [] cmd.type = "respond" -> Some(cmd.data)
      [] OTHER -> NoneOpt

DaemonInit ==
    /\ state = DefaultState
    /\ rec = NoneOpt
    /\ commands = <<>>
    /\ cmdOpen = TRUE
    /\ responses = <<>>
    /\ respOpen = TRUE
    /\ jobs = <<>>
    /\ results = <<>>
    /\ worker = "waiting"
    /\ pc = "recv"
    /\ pending = NoneOpt
    /\ ret = None
    /\ log = <<>>
    /\ sent = <<>>
    /\ issued = 0
    /\ server = "running"
    /\ exit_status = NoneOpt

Init == DaemonInit /\ UnitsIdle

\* ------------------------------------------------------------- transport

\* A transport handler sends one command (AppEvents::request, first line);
\* the send blocks while the bounded channel is full.
SendCommand(bound) ==
    /\ exit_status = NoneOpt
    /\ cmdOpen
    /\ pc \notin {"returned", "panicked"}
    /\ issued < bound
    /\ Len(commands) < CmdChanCap
    /\ \E i \in 1..Len(CommandList) :
         commands' = Append(commands, CommandList[i])
    /\ issued' = issued + 1
    /\ UNCHANGED <<state, rec, cmdOpen, responses, respOpen, jobs, results, worker, pc,
                   pending, ret, log, sent>>
    /\ UNCHANGED <<entryVars, unitVars>>

TransportSend == SendCommand(MaxCmds)

\* The transport drops its commands sender (the server stops).
TransportClose ==
    /\ exit_status = NoneOpt
    /\ cmdOpen
    /\ cmdOpen' = FALSE
    /\ UNCHANGED <<state, rec, commands, responses, respOpen, jobs, results, worker, pc,
                   pending, ret, log, sent, issued>>
    /\ UNCHANGED <<entryVars, unitVars>>

\* A transport handler takes one response (AppEvents::request, second line).
TransportRecv ==
    /\ exit_status = NoneOpt
    /\ respOpen
    /\ responses # <<>>
    /\ responses' = Tail(responses)
    /\ UNCHANGED <<state, rec, commands, cmdOpen, respOpen, jobs, results, worker, pc,
                   pending, ret, log, sent, issued>>
    /\ UNCHANGED <<entryVars, unitVars>>

\* The transport drops the responses receiver; what is buffered is lost.
TransportDrop ==
    /\ exit_status = NoneOpt
    /\ respOpen
    /\ respOpen' = FALSE
    /\ responses' = <<>>
    /\ UNCHANGED <<state, rec, commands, cmdOpen, jobs, results, worker, pc, pending, ret,
                   log, sent, issued>>
    /\ UNCHANGED <<entryVars, unitVars>>

\* ----------------------------------------------------------------- daemon

\* The loop body runs on the item the iterator yielded for the command at
\* the head of the queue, up to its send: m holds the state the closure
\* left, the Option it yielded and what handle gave.
TakeItem(m) ==
    LET cmd == Head(commands)
    IN  /\ commands' = Tail(commands)
        /\ state' = m.state
        /\ \E o \in body(cmd, m.yielded, rec, jobs) :
             /\ pc' = o.pc
             /\ pending' = o.pending
             /\ rec' = o.rec
             /\ jobs' = o.jobs
             /\ ret' = o.ret
             /\ log' = Append(log,
                  [cmd |-> cmd, pre |-> state,
                   accepted |-> m.h.ok,
                   handled |-> m.h.st,
                   post |-> m.state, yielded |-> m.yielded,
                   rec_pre |-> rec, rec_post |-> o.rec,
                   jobs_sent |-> Len(o.jobs) - Len(jobs),
                   stop_result |-> None,
                   result |-> NoneOpt,
                   resps |-> <<>>])

\* One turn of `for (command, new_state_opt) in commands.run_state_machine(..)`:
\* take the next command, run the state machine on it, run the loop body up
\* to its send.
DaemonRecv ==
    /\ exit_status = NoneOpt
    /\ pc = "recv"
    /\ commands # <<>>
    /\ \E m \in run_state_machine(state, Head(commands)) : TakeItem(m)
    /\ UNCHANGED <<cmdOpen, responses, respOpen, results, worker, sent, issued>>
    /\ UNCHANGED <<entryVars, unitVars>>

\* What the worker may send for a job: Ok with the text process() keeps
\* or with none, or the error of transcribe_audio.
WorkerResults ==
    <<[ok |-> TRUE, content |-> "hi"], [ok |-> TRUE, content |-> None],
      [ok |-> FALSE, content |-> None]>>

\* The loop body goes on after the wait it stood in.
\* starting: rec.start() returns once the capture thread signals
\* Recording, and never if that thread failed before: no supported
\* config, or a format, channel or stream error; then Ack is to be sent.
\* stopping: rec.stop() returns; its error is returned by `?`, else the
\* job is sent to the worker.
\* await_result: whisper_output.iter().next() yields the next result, or
\* None once the worker's sender is gone, which `?` returns as
\* NoTranscriptionResult.
DaemonResume ==
    /\ exit_status = NoneOpt
    /\ \/ /\ pc = "starting"
          /\ \/ /\ supported_configs(rec.val.session) # {}
                /\ pc' = "send"
                /\ pending' = Some(Ack(NowMs))
             \/ /\ pc' = "start_blocked"
                /\ pending' = pending
          /\ UNCHANGED <<rec, jobs, results, ret, log>>
       \/ /\ pc = "stopping"
          /\ \/ /\ from_recordings_alive
                /\ pc' = "await_result"
                /\ jobs' = Append(jobs, Job(state))
                /\ log' = [log EXCEPT ![Len(log)].jobs_sent = @ + 1,
                                      ![Len(log)].stop_result = "Ok"]
                /\ UNCHANGED ret
             \/ /\ ~from_recordings_alive
                /\ pc' = "returned"
                /\ ret' = "Err(Send)"
                /\ log' = [log EXCEPT ![Len(log)].stop_result = "Ok"]
                /\ UNCHANGED jobs
             \/ /\ pc' = "returned"
                /\ ret' = "Err(Recording)"
                /\ log' = [log EXCEPT ![Len(log)].stop_result = "Err"]
                /\ UNCHANGED jobs
          /\ UNCHANGED <<rec, results, pending>>
       \/ /\ pc = "await_result"
          /\ \/ /\ results # <<>>
                /\ results' = Tail(results)
                /\ pc' = "send"
                /\ pending' = Some(Transcription(Head(results).content,
                                                 mode(state)))
                /\ log' = [log EXCEPT ![Len(log)].result =
                                         Some(Head(results))]
                /\ UNCHANGED <<rec, ret>>
             \/ /\ results = <<>>
                /\ worker # "waiting"
                /\ pc' = "returned"
                /\ ret' = "Err(NoTranscriptionResult)"
                /\ rec' = NoneOpt
                /\ UNCHANGED <<results, pending, log>>
          /\ UNCHANGED jobs
    /\ UNCHANGED <<state, commands, cmdOpen, responses, respOpen, worker,
                   sent, issued>>
    /\ UNCHANGED <<entryVars, unitVars>>

\* The commands channel is closed and drained: the `for` loop ends and
\* run_loop goes on to send Exit(exit_code).
DaemonLoopEnd ==
    /\ exit_status = NoneOpt
    /\ pc = "recv"
    /\ commands = <<>>
    /\ ~cmdOpen
    /\ pc' = "exit_send"
    /\ pending' = Some(Exit(exit_code))
    /\ UNCHANGED <<state, rec, commands, cmdOpen, responses, respOpen, jobs, results, worker,
                   ret, log, sent, issued>>
    /\ UNCHANGED <<entryVars, unitVars>>

\* The send as it would be without its `?`: a failed send is dropped and
\* the loop goes on.
DaemonSendUnchecked ==
    /\ exit_status = NoneOpt
    /\ pc \in {"send", "exit_send"}
    /\ \/ /\ respOpen
          /\ Len(responses) < RespChanCap
          /\ responses' = Append(responses, pending.val)
          /\ sent' = Append(sent, pending.val)
          /\ log' = IF pc = "send"
                    THEN [log EXCEPT ![Len(log)].resps = Append(@, pending.val)]
                    ELSE log
       \/ /\ ~respOpen
          /\ UNCHANGED <<responses, sent, log>>
    /\ pc' = IF pc = "send" THEN "recv" ELSE "join"
    /\ pending' = NoneOpt
    /\ UNCHANGED <<rec, ret, state, commands, cmdOpen, respOpen, jobs, results, worker,
                   issued>>
    /\ UNCHANGED <<entryVars, unitVars>>

\* responses.send(..)? : blocks while the channel is full; fails, and makes
\* run_loop return Err(Error::Send), once the receiver is gone.
DaemonSend ==
    /\ exit_status = NoneOpt
    /\ pc \in {"send", "exit_send"}
    /\ \/ /\ respOpen
          /\ Len(responses) < RespChanCap
          /\ responses' = Append(responses, pending.val)
          /\ sent' = Append(sent, pending.val)
          /\ IF pc = "send"
             THEN /\ log' = [log EXCEPT ![Len(log)].resps =
                                          Append(@, pending.val)]
                  /\ pc' = "recv"
             ELSE /\ log' = log
                  /\ pc' = "join"
          /\ UNCHANGED <<rec, ret>>
       \/ /\ ~respOpen
          /\ pc' = "returned"
          /\ ret' = "Err(Send)"
          /\ rec' = NoneOpt
          /\ UNCHANGED <<responses, sent, log>>
    /\ pending' = NoneOpt
    /\ UNCHANGED <<state, commands, cmdOpen, respOpen, jobs, results, worker, issued>>
    /\ UNCHANGED <<entryVars, unitVars>>

\* ----------------------------------------------------------------- worker

\* The to_whisper sender is a local of run_loop: it lives until run_loop
\* returns or unwinds, the join of the worker included.
to_whisper_alive == pc \notin {"returned", "panicked"}

\* The worker takes the next job and sends its result, or its thread ends
\* without one: job.duration() panicked on a sample rate of 0,
\* Whisper::new(..)? returned the error of a model that does not load, or
\* transcribe_audio panicked.
WorkerTranscribes ==
    /\ exit_status = NoneOpt
    /\ worker = "waiting"
    /\ jobs # <<>>
    /\ jobs' = Tail(jobs)
    /\ \/ /\ \E i \in 1..Len(WorkerResults) :
                results' = Append(results, WorkerResults[i])
          /\ UNCHANGED worker
       \/ /\ worker' = "failed"
          /\ UNCHANGED results
    /\ UNCHANGED <<state, rec, commands, cmdOpen, responses, respOpen, pc,
                   pending, ret, log, sent, issued>>
    /\ UNCHANGED <<entryVars, unitVars>>

\* `for job in &jobs` ends, and the worker thread returns Ok(()), once the
\* jobs channel is empty and its sender is gone.
WorkerExit ==
    /\ exit_status = NoneOpt
    /\ worker = "waiting"
    /\ jobs = <<>>
    /\ ~to_whisper_alive
    /\ worker' = "exited"
    /\ UNCHANGED <<state, rec, commands, cmdOpen, responses, respOpen, jobs,
                   results, pc, pending, ret, log, sent, issued>>
    /\ UNCHANGED <<entryVars, unitVars>>

\* ---------------------------------------------------------- process entry

\* The future of Server::run (web.rs 298-304) resolves, and the commands
\* sender and the responses receiver, which the server holds, are dropped
\* with it.  Ok: the server was stopped, or bind(&addr)? failed, whose
\* error is the value of the task start() spawned, while run looks at the
\* JoinError alone.  Err: that task panicked, which it can at any time.
ServerFinishes ==
    /\ exit_status = NoneOpt
    /\ server = "running"
    /\ server' \in {"Ok", "Err"}
    /\ cmdOpen' = FALSE
    /\ respOpen' = FALSE
    /\ responses' = <<>>
    /\ UNCHANGED <<state, rec, commands, jobs, results, worker, pc, pending,
                   ret, log, sent, issued, exit_status>>
    /\ UNCHANGED unitVars

\* The status the process ends with, by the arm of tokio::select! in
\* run_web_server that completes and its value.  app_finished: the value
\* is run_loop's result; Ok(b) is handed on, and an Err or a panic of
\* run_loop panics in one of the two expect(..).  outcome: the value is
\* the server's result; Ok is handed on as Ok(true), an Err panics in
\* expect("server failed").  main calls std::process::exit(1) on
\* Ok(true) and returns Ok(()) otherwise; a panicking main ends the
\* process with Rust's status 101.
main_exit_status(arm, v) ==
    CASE arm = "app_finished" /\ v = "Ok(true)" -> 1
      [] arm = "app_finished" /\ v = "Ok(false)" -> 0
      [] arm = "app_finished" -> 101
      [] arm = "outcome" /\ v = "Ok" -> 1
      [] arm = "outcome" -> 101

\* run_loop's thread is over: it returned or it unwound.
app_finished == pc \in {"returned", "panicked"}

\* tokio::select! completes with an arm that is ready and the process
\* ends.  After a panic of main the runtime still waits for the blocking
\* thread of run_loop before the process is gone.
ProcessExit ==
    /\ exit_status = NoneOpt
    /\ \/ /\ app_finished
          /\ exit_status' = Some(main_exit_status("app_finished", ret))
       \/ /\ server = "Ok"
          /\ exit_status' = Some(main_exit_status("outcome", server))
       \/ /\ server = "Err"
          /\ app_finished
          /\ exit_status' = Some(main_exit_status("outcome", server))
    /\ UNCHANGED <<state, rec, commands, cmdOpen, responses, respOpen, jobs,
                   results, worker, pc, pending, ret, log, sent, issued, server>>
    /\ UNCHANGED unitVars

Next ==
    \/ TransportSend
    \/ TransportClose
    \/ TransportRecv
    \/ TransportDrop
    \/ DaemonRecv
    \/ DaemonResume
    \/ DaemonLoopEnd
    \/ DaemonSend
    \/ WorkerTranscribes
    \/ WorkerExit
    \/ ServerFinishes
    \/ ProcessExit

Spec == Init /\ [][Next]_vars

\* ------------------------------------------------------------- loop body

\* The items the closure of run_state_machine can put together for a
\* command: the state is the one handle left, and the Option is one of the
\* three the closure builds, None (lines 105 and 111), Some(initial) (line
\* 103) or Some(state.clone()) (line 92), whichever of its branches is
\* taken.  The items run_state_machine yields are among them.
closure_items(st, cmd) ==
    UNION {{[state |-> h.st, yielded |-> y, h |-> h] :
               y \in {NoneOpt, Some(st), Some(h.st)}} :
           h \in handle_values(st, cmd)}

\* One turn of the `for` loop of run_loop on any of those items: the arms
\* of the loop body followed on their own, the Start and Stop arms
\* included.
LoopBodyTakes ==
    /\ exit_status = NoneOpt
    /\ pc = "recv"
    /\ commands # <<>>
    /\ \E m \in closure_items(state, Head(commands)) : TakeItem(m)
    /\ UNCHANGED <<cmdOpen, responses, respOpen, results, worker, sent, issued>>
    /\ UNCHANGED <<entryVars, unitVars>>

\* A command is sent to the loop followed on its own.
LoopBodySend == SendCommand(MaxItems)

LoopBodyNext ==
    \/ LoopBodySend
    \/ TransportClose
    \/ TransportRecv
    \/ LoopBodyTakes
    \/ DaemonResume
    \/ DaemonLoopEnd
    \/ DaemonSend
    \/ WorkerTranscribes

SpecLoopBody == Init /\ [][LoopBodyNext]_vars

\* -------------------------------------------------------------- recording

\* Everything but the Recording stays as it is.
RecFrame == UNCHANGED <<daemonVars, sockVars, pureVars, wkVars, webVars>>

RecInit ==
    /\ DaemonInit
    /\ SockCreated("absent")
    /\ WorkerSpawned(FALSE)
    /\ WebIdle
    /\ PureIdle
    /\ \E s \in Sessions \cup {SessionC, SessionD, SessionE} : RecCreated(s)

\* Notifier::wait_until(value) can return: the stored value equals it.
wait_until(stored, value) == stored = value

\* The processor's sender of the sink channel is alive: it is owned by the
\* capture thread's closure, then by the stream's callback, and dropped with
\* them.
sink_send_alive == cap # "done"

\* The threads inside wait_until on the controller and the value each
\* waits for: the caller of start() for Recording, the capture thread for
\* Started and later for Stopped.
Waiting ==
    (IF caller = "start_wait" THEN {"caller"} ELSE {})
    \cup (IF cap \in {"wait_started", "wait_stopped"} THEN {"capture"} ELSE {})

Awaited(t) ==
    IF t = "caller" THEN "Recording"
    ELSE IF cap = "wait_started" THEN "Started" ELSE "Stopped"

\* notify as it would be without cvar.notify_one(): nobody is woken.
notify_none(sleepers) == {sleepers}

\* cvar.notify_one(): one of the sleeping threads, if any, is woken. The
\* result is the set of sets of threads that may be left asleep.
notify_one(sleepers) ==
    IF sleepers = {} THEN {{}} ELSE {sleepers \ {t} : t \in sleepers}

\* wait_until finds another value than the awaited one under the lock and
\* blocks in cvar.wait(state), which releases the lock.
CondvarWait ==
    /\ \E t \in Waiting \ asleep :
          /\ ~wait_until(ctl, Awaited(t))
          /\ asleep' = asleep \cup {t}
    /\ UNCHANGED <<recSess, ctl, caller, cap, capRes, stream, sinkChan, sinkPc,
                   sinkBuf, stopRes, produced, batches, atStart, woken>>
    /\ RecFrame

\* cvar.wait returns without a notify: a spurious wake-up; the loop of
\* wait_until tests the value again.
SpuriousWake ==
    /\ \E t \in asleep : asleep' = asleep \ {t}
    /\ UNCHANGED <<recSess, ctl, caller, cap, capRes, stream, sinkChan, sinkPc,
                   sinkBuf, stopRes, produced, batches, atStart, woken>>
    /\ RecFrame

\* Recording::start, first half: controller.start() writes Started.
RecStart ==
    /\ caller = "created"
    /\ ctl' = "Started"
    /\ caller' = "start_wait"
    /\ UNCHANGED <<recSess, cap, capRes, stream, sinkChan, sinkPc, sinkBuf,
                   stopRes, produced, batches, atStart>>
    /\ asleep' \in notify_one(asleep)
    /\ woken' = woken \cup (asleep \ asleep')
    /\ RecFrame

\* The wait of start() as it would be if it waited for Started only.
start_wait_for_started(stored) == wait_until(stored, "Started")

\* wait_for(Recording) as start() calls it.
start_wait_for(stored) == wait_until(stored, "Recording")

\* Recording::start, second half: controller.wait_for(Recording) returns.
RecStartReturn ==
    /\ caller = "start_wait"
    /\ "caller" \notin asleep
    /\ start_wait_for(ctl)
    /\ caller' = "started"
    /\ atStart' = Some([stream |-> stream, batches |-> batches])
    /\ UNCHANGED <<recSess, ctl, cap, capRes, stream, sinkChan, sinkPc,
                   sinkBuf, stopRes, produced, batches>>
    /\ UNCHANGED <<asleep, woken>>
    /\ RecFrame

\* Recording::stop, first line: controller.stop() writes Stopped.
RecStop ==
    /\ caller = "started"
    /\ ctl' = "Stopped"
    /\ caller' = "join_capture"
    /\ UNCHANGED <<recSess, cap, capRes, stream, sinkChan, sinkPc, sinkBuf,
                   stopRes, produced, batches, atStart>>
    /\ asleep' \in notify_one(asleep)
    /\ woken' = woken \cup (asleep \ asleep')
    /\ RecFrame

\* Recording::stop: join_handle(self.handle)? and metadata_result?.
RecJoinCapture ==
    /\ caller = "join_capture"
    /\ cap = "done"
    /\ IF capRes = "Ok(cfg)"
       THEN caller' = "join_sink" /\ stopRes' = stopRes
       ELSE /\ caller' = "stopped"
            /\ stopRes' = Some([ok |-> FALSE, err |-> capRes])
    /\ UNCHANGED <<recSess, ctl, cap, capRes, stream, sinkChan, sinkPc,
                   sinkBuf, produced, batches, atStart, asleep, woken>>
    /\ RecFrame

\* Recording::stop: join_handle_rs(self.receiving_handle)?, Ok((cfg, audio)).
RecJoinSink ==
    /\ caller = "join_sink"
    /\ sinkPc = "done"
    /\ caller' = "stopped"
    /\ stopRes' = Some([ok |-> TRUE, audio |-> sinkBuf])
    /\ UNCHANGED <<recSess, ctl, cap, capRes, stream, sinkChan, sinkPc,
                   sinkBuf, produced, batches, atStart, asleep, woken>>
    /\ RecFrame

\* What the capture thread leaves behind when it returns r: the thread is
\* over and whatever stream it held is dropped.
CaptureReturns(r) ==
    /\ cap' = "done"
    /\ capRes' = r
    /\ stream' = IF stream = "none" THEN "none" ELSE "dropped"

\* Capture thread: session.supported_configs()?.next().ok_or(..)?
CaptureResolve ==
    /\ cap = "resolve"
    /\ \/ /\ supported_configs(recSess) # {}
          /\ cap' = "wait_started"
          /\ UNCHANGED <<capRes, stream>>
       \/ /\ supported_configs(recSess) = {}
          /\ CaptureReturns("Err(NoSupportedConfigs)")
       \/ CaptureReturns("Err(Session)")
    /\ UNCHANGED <<recSess, ctl, caller, sinkChan, sinkPc, sinkBuf, stopRes,
                   produced, batches, atStart, asleep, woken>>
    /\ RecFrame

\* The capture thread's wait as it would be if it did not wait at all.
capture_wait_for_nothing(stored) == TRUE

\* wait_for(Started) as the capture thread calls it.
capture_wait_for(stored) == wait_until(stored, "Started")

\* Capture thread: c2.wait_for(Started) returns; then the sample format and
\* channel count are checked and the input stream is built, each of which
\* the device may fail.
CaptureBuild ==
    /\ cap = "wait_started"
    /\ "capture" \notin asleep
    /\ capture_wait_for(ctl)
    /\ \/ /\ cap' = "play"
          /\ stream' = "built"
          /\ capRes' = capRes
       \/ \E e \in {"Err(InvalidSampleFormat)", "Err(InvalidChannelCount)",
                     "Err(Process(BuildStream))"} : CaptureReturns(e)
    /\ UNCHANGED <<recSess, ctl, caller, sinkChan, sinkPc, sinkBuf, stopRes,
                   produced, batches, atStart, asleep, woken>>
    /\ RecFrame

\* Capture thread: stream.play()?
CapturePlay ==
    /\ cap = "play"
    /\ \/ /\ cap' = "signal"
          /\ stream' = "playing"
          /\ capRes' = capRes
       \/ CaptureReturns("Err(PlayStream)")
    /\ UNCHANGED <<recSess, ctl, caller, sinkChan, sinkPc, sinkBuf, stopRes,
                   produced, batches, atStart, asleep, woken>>
    /\ RecFrame

\* Capture thread: c2.recording() writes Recording.
CaptureSignal ==
    /\ cap = "signal"
    /\ ctl' = "Recording"
    /\ cap' = "wait_stopped"
    /\ UNCHANGED <<recSess, caller, capRes, stream, sinkChan, sinkPc, sinkBuf,
                   stopRes, produced, batches, atStart>>
    /\ asleep' \in notify_one(asleep)
    /\ woken' = woken \cup (asleep \ asleep')
    /\ RecFrame

\* Capture thread: c2.wait_for(Stopped) returns, the thread returns Ok(cfg)
\* and the stream goes out of scope.
CaptureFinish ==
    /\ cap = "wait_stopped"
    /\ "capture" \notin asleep
    /\ wait_until(ctl, "Stopped")
    /\ CaptureReturns("Ok(cfg)")
    /\ UNCHANGED <<recSess, ctl, caller, sinkChan, sinkPc, sinkBuf, stopRes,
                   produced, batches, atStart, asleep, woken>>
    /\ RecFrame

\* The device calls the stream's data callback with one batch:
\* write_input_data sends each mono sample of the batch to the sink.
\* Samples are numbered in the order they are sent.
Callback ==
    /\ stream = "playing"
    /\ \E n \in 1..MaxBatch :
         /\ Len(produced) + n <= MaxSamples
         /\ LET batch == [k \in 1..n |-> Len(produced) + k]
            IN  /\ sinkChan' = sinkChan \o batch
                /\ produced' = produced \o batch
    /\ batches' = batches + 1
    /\ UNCHANGED <<recSess, ctl, caller, cap, capRes, stream, sinkPc, sinkBuf,
                   stopRes, atStart, asleep, woken>>
    /\ RecFrame

\* Sink thread: the collect() over recv.iter() takes the next message.
SinkRecv ==
    /\ sinkPc = "running"
    /\ sinkChan # <<>>
    /\ sinkBuf' = Append(sinkBuf, Head(sinkChan))
    /\ sinkChan' = Tail(sinkChan)
    /\ UNCHANGED <<recSess, ctl, caller, cap, capRes, stream, sinkPc, stopRes,
                   produced, batches, atStart, asleep, woken>>
    /\ RecFrame

\* The sink's iteration as it would be if it ended as soon as the channel
\* is empty.
sink_iter_ends_when_empty == sinkChan = <<>>

\* recv.iter() ends: the channel is empty and every sender is dropped.
sink_iter_ends == sinkChan = <<>> /\ ~sink_send_alive

\* Sink thread: the iteration ends and the thread returns the Vec.
SinkEnd ==
    /\ sinkPc = "running"
    /\ sink_iter_ends
    /\ sinkPc' = "done"
    /\ UNCHANGED <<recSess, ctl, caller, cap, capRes, stream, sinkChan,
                   sinkBuf, stopRes, produced, batches, atStart, asleep, woken>>
    /\ RecFrame

RecNext ==
    \/ RecStart
    \/ RecStartReturn
    \/ RecStop
    \/ RecJoinCapture
    \/ RecJoinSink
    \/ CaptureResolve
    \/ CaptureBuild
    \/ CapturePlay
    \/ CaptureSignal
    \/ CaptureFinish
    \/ Callback
    \/ SinkRecv
    \/ SinkEnd
    \/ CondvarWait
    \/ SpuriousWake

SpecRecording == RecInit /\ [][RecNext]_vars

\* ----------------------------------------------------------------- socket

\* Everything but the socket transport stays as it is.
SockFrame == UNCHANGED <<daemonVars, recVars, pureVars, wkVars, webVars>>

SockInit ==
    /\ DaemonInit
    /\ RecCreated(SessionA)
    /\ \E path \in SocketPaths :
          IF receive_instructions(path) = "Ok"
          THEN SockCreated(path)
          ELSE SockRefused(path)
    /\ WorkerSpawned(FALSE)
    /\ WebIdle
    /\ PureIdle

\* State::change
change(st, c) ==
    CASE c = "Close" -> [st EXCEPT !.half_closed = TRUE]
      [] c = "MessageRead" ->
             [st EXCEPT !.outstanding_messages = @ + 1]
      [] c = "MessageWritten" ->
             [st EXCEPT !.outstanding_messages = @ - 1]

\* State::ready
ready(st) == st.half_closed /\ st.outstanding_messages = 0

\* queue.send(c) on the bounded state queue: the sender waits while the
\* queue is full; once the notification thread is over the receiver is
\* gone, the send fails and the failure is only logged.
queue_send_returns == notif # "waiting" \/ Len(stateQ) < StateQueueCap
queue_send(c) == IF notif = "waiting" THEN Append(stateQ, c) ELSE stateQ

\* rrecv is a capture of the listener thread's closure: it is alive as
\* long as that thread is.
rrecv_alive == lst \in {"binding", "accept", "handling"}

\* The responses channel once the listener thread stands at l: dropping
\* the receiver discards what is queued.
resps_at(l) == IF l \in {"failed", "panicked"} THEN <<>> ELSE sockResps

\* The server's end of the connection is open while one of the two threads
\* that own the stream and its clone is alive.
server_end_open ==
    \/ rd \in {"running", "report", "closing"}
    \/ wr \in {"running", "report", "closing"}

\* Listener thread: UnixListener::bind(sock_path).expect(..), then the
\* first incoming.next().
SockBind ==
    /\ lst = "binding"
    /\ \E b \in bind(sockPath) :
          /\ lst' = IF b = "Ok" THEN "accept" ELSE "panicked"
          /\ sockResps' = IF b = "Ok" THEN sockResps ELSE <<>>
    /\ UNCHANGED <<sockPath, served, client, nlines, inbuf, sockCmds,
                   takenCmd, wq, loopOn, rd, wr, stateQ, connState, notif,
                   sockCmdOpen, sockRespOpen, connErr>>
    /\ SockFrame

\* Listener thread: incoming.next() yields a stream, stream.try_clone()
\* succeeds and handle_stream spawns its read, write and notification
\* threads.
SockAccept ==
    /\ lst = "accept"
    /\ served < MaxConns
    /\ lst' = "handling"
    /\ served' = served + 1
    /\ client' = "open"
    /\ nlines' = 0
    /\ inbuf' = 0
    /\ wq' = <<>>
    /\ loopOn' = TRUE
    /\ rd' = "running"
    /\ wr' = "running"
    /\ stateQ' = <<>>
    /\ connState' = NewConnState
    /\ notif' = "waiting"
    /\ UNCHANGED <<sockPath, sockCmds, sockResps, takenCmd, sockCmdOpen,
                   sockRespOpen, connErr>>
    /\ SockFrame

\* Listener thread: incoming.next().transpose()? or stream.try_clone()?
\* returns an error, as both do when the process is out of file
\* descriptors: the thread ends with it and no thread was started for the
\* stream.
SockAcceptFail ==
    /\ lst = "accept"
    /\ served < MaxConns
    /\ lst' = "failed"
    /\ sockResps' = <<>>
    /\ UNCHANGED <<sockPath, served, client, nlines, inbuf, sockCmds,
                   takenCmd, wq, loopOn, rd, wr, stateQ, connState, notif,
                   sockCmdOpen, sockRespOpen, connErr>>
    /\ SockFrame

\* The peer writes a line; it stays in the socket until it is read.
ClientWrite ==
    /\ client \in {"open", "deaf"}
    /\ server_end_open
    /\ nlines < MaxLines
    /\ nlines' = nlines + 1
    /\ inbuf' = inbuf + 1
    /\ UNCHANGED <<sockPath, lst, served, client, sockCmds, sockResps,
                   takenCmd, wq, loopOn, rd, wr, stateQ, connState, notif,
                   sockCmdOpen, sockRespOpen, connErr>>
    /\ SockFrame

\* The peer shuts down its writing half or its reading half, or closes
\* the connection, which it can also do after a shutdown.
ClientShutdown ==
    /\ \/ /\ client = "open"
          /\ client' \in {"half", "deaf", "gone"}
       \/ /\ client \in {"half", "deaf"}
          /\ client' = "gone"
    /\ UNCHANGED <<sockPath, lst, served, nlines, inbuf, sockCmds,
                   sockResps, takenCmd, wq, loopOn, rd, wr, stateQ, connState,
                   notif, sockCmdOpen, sockRespOpen, connErr>>
    /\ SockFrame

\* read_thread: the next line the peer wrote is read, whether or not the
\* peer is still there; s.send(line)? puts it on the commands channel, or
\* returns the error from the thread when the receiver of that channel is
\* gone.
SockReadLine ==
    /\ rd = "running"
    /\ inbuf > 0
    /\ inbuf' = inbuf - 1
    /\ IF sockCmdOpen
       THEN /\ sockCmds' = Append(sockCmds, <<served, nlines - inbuf + 1>>)
            /\ rd' = "report"
       ELSE /\ rd' = "err"
            /\ UNCHANGED sockCmds
    /\ UNCHANGED <<sockPath, lst, served, client, nlines, sockResps, takenCmd,
                   wq, loopOn, wr, stateQ, connState, notif, sockCmdOpen,
                   sockRespOpen, connErr>>
    /\ SockFrame

\* read_thread: queue.send(StateChange::MessageRead) after the line was
\* sent.
SockReportRead ==
    /\ rd = "report"
    /\ queue_send_returns
    /\ stateQ' = queue_send("MessageRead")
    /\ rd' = "running"
    /\ UNCHANGED <<sockPath, lst, served, client, nlines, inbuf, sockCmds,
                   sockResps, takenCmd, wq, loopOn, wr, connState, notif,
                   sockCmdOpen, sockRespOpen, connErr>>
    /\ SockFrame

\* read_thread: lines() ends at end of stream, once every line the peer
\* wrote was read and its writing half is closed.
SockReadEof ==
    /\ rd = "running"
    /\ inbuf = 0
    /\ client \in {"half", "gone"}
    /\ rd' = "closing"
    /\ UNCHANGED <<sockPath, lst, served, client, nlines, inbuf, sockCmds,
                   sockResps, takenCmd, wq, loopOn, wr, stateQ, connState,
                   notif, sockCmdOpen, sockRespOpen, connErr>>
    /\ SockFrame

\* read_thread: queue.send(StateChange::Close), then Ok(()).
SockReadClose ==
    /\ rd = "closing"
    /\ queue_send_returns
    /\ stateQ' = queue_send("Close")
    /\ rd' = "done"
    /\ UNCHANGED <<sockPath, lst, served, client, nlines, inbuf, sockCmds,
                   sockResps, takenCmd, wq, loopOn, wr, connState, notif,
                   sockCmdOpen, sockRespOpen, connErr>>
    /\ SockFrame

\* read_thread: a read fails, with the peer there or after it closed with
\* data unread (connection reset), and l.expect("Failed to read line")
\* panics.
SockReadFail ==
    /\ rd = "running"
    /\ rd' = "panicked"
    /\ connErr' = connErr \cup {"read"}
    /\ UNCHANGED <<sockPath, lst, served, client, nlines, inbuf, sockCmds,
                   sockResps, takenCmd, wq, loopOn, wr, stateQ, connState,
                   notif, sockCmdOpen, sockRespOpen>>
    /\ SockFrame

\* The consumer of the commands channel takes the next command.
SockConsume ==
    /\ sockCmdOpen
    /\ takenCmd = NoneOpt
    /\ sockCmds # <<>>
    /\ sockCmds' = Tail(sockCmds)
    /\ takenCmd' = Some(Head(sockCmds))
    /\ UNCHANGED <<sockPath, lst, served, client, nlines, inbuf, sockResps,
                   wq, loopOn, rd, wr, stateQ, connState, notif,
                   sockCmdOpen, sockRespOpen, connErr>>
    /\ SockFrame

\* The consumer sends the response to the command it took: rsend.send(..)
\* queues it, or returns an error and queues nothing once the listener
\* thread, and rrecv with it, is gone.
SockRespond ==
    /\ sockRespOpen
    /\ takenCmd.some
    /\ takenCmd' = NoneOpt
    /\ sockResps' = IF rrecv_alive THEN Append(sockResps, takenCmd.val)
                    ELSE sockResps
    /\ UNCHANGED <<sockPath, lst, served, client, nlines, inbuf, sockCmds,
                   wq, loopOn, rd, wr, stateQ, connState, notif,
                   sockCmdOpen, sockRespOpen, connErr>>
    /\ SockFrame

\* The consumer drops its receiver of the commands channel; what is queued
\* goes with it.
SockCommandsDropped ==
    /\ sockCmdOpen
    /\ sockCmdOpen' = FALSE
    /\ sockCmds' = <<>>
    /\ UNCHANGED <<sockPath, lst, served, client, nlines, inbuf, sockResps,
                   takenCmd, wq, loopOn, rd, wr, stateQ, connState, notif,
                   sockRespOpen, connErr>>
    /\ SockFrame

\* The consumer drops its sender of the responses channel; what is queued
\* can still be received.
SockResponsesDropped ==
    /\ sockRespOpen
    /\ sockRespOpen' = FALSE
    /\ UNCHANGED <<sockPath, lst, served, client, nlines, inbuf, sockCmds,
                   sockResps, takenCmd, wq, loopOn, rd, wr, stateQ, connState,
                   notif, sockCmdOpen, connErr>>
    /\ SockFrame

\* handle_stream, select arm recv(res_recv) with a response: it is handed
\* to the write thread; s.send(response).expect(..) panics once that
\* thread is gone.
HandleForward ==
    /\ lst = "handling"
    /\ loopOn
    /\ sockResps # <<>>
    /\ IF wr \in {"running", "report"}
       THEN /\ wq' = Append(wq, Head(sockResps))
            /\ sockResps' = Tail(sockResps)
            /\ UNCHANGED <<lst, loopOn>>
       ELSE /\ lst' = "panicked"
            /\ loopOn' = FALSE
            /\ sockResps' = <<>>
            /\ wq' = wq
    /\ UNCHANGED <<sockPath, served, client, nlines, inbuf, sockCmds,
                   takenCmd, rd, wr, stateQ, connState, notif, sockCmdOpen,
                   sockRespOpen, connErr>>
    /\ SockFrame

\* handle_stream, select arm recv(res_recv) on the empty channel whose
\* sender is gone: `let response = msg?` returns the error at once, without
\* the joins, and the listener's `?` ends the listener thread with it.
HandleRecvErr ==
    /\ lst = "handling"
    /\ loopOn
    /\ sockResps = <<>>
    /\ ~sockRespOpen
    /\ lst' = "failed"
    /\ loopOn' = FALSE
    /\ UNCHANGED <<sockPath, served, client, nlines, inbuf, sockCmds,
                   sockResps, takenCmd, wq, rd, wr, stateQ, connState, notif,
                   sockCmdOpen, sockRespOpen, connErr>>
    /\ SockFrame

\* write_thread: the next line is written; write_all(..)? returns the
\* error of a broken pipe from the thread once the peer shut down its
\* reading half or closed.
SockWrite ==
    /\ wr = "running"
    /\ wq # <<>>
    /\ wq' = Tail(wq)
    /\ IF client \in {"deaf", "gone"}
       THEN /\ wr' = "err"
            /\ connErr' = connErr \cup {"write"}
       ELSE /\ wr' = "report"
            /\ UNCHANGED connErr
    /\ UNCHANGED <<sockPath, lst, served, client, nlines, inbuf, sockCmds,
                   sockResps, takenCmd, loopOn, rd, stateQ, connState, notif,
                   sockCmdOpen, sockRespOpen>>
    /\ SockFrame

\* write_thread: queue.send(StateChange::MessageWritten) after the line
\* was written.
SockReportWritten ==
    /\ wr = "report"
    /\ queue_send_returns
    /\ stateQ' = queue_send("MessageWritten")
    /\ wr' = "running"
    /\ UNCHANGED <<sockPath, lst, served, client, nlines, inbuf, sockCmds,
                   sockResps, takenCmd, wq, loopOn, rd, connState, notif,
                   sockCmdOpen, sockRespOpen, connErr>>
    /\ SockFrame

\* write_thread: r.iter() ends once handle_stream dropped s.
SockWriteEnd ==
    /\ wr = "running"
    /\ wq = <<>>
    /\ ~loopOn
    /\ wr' = "closing"
    /\ UNCHANGED <<sockPath, lst, served, client, nlines, inbuf, sockCmds,
                   sockResps, takenCmd, wq, loopOn, rd, stateQ, connState,
                   notif, sockCmdOpen, sockRespOpen, connErr>>
    /\ SockFrame

\* write_thread: queue.send(StateChange::Close), then Ok(()).
SockWriteClose ==
    /\ wr = "closing"
    /\ queue_send_returns
    /\ stateQ' = queue_send("Close")
    /\ wr' = "done"
    /\ UNCHANGED <<sockPath, lst, served, client, nlines, inbuf, sockCmds,
                   sockResps, takenCmd, wq, loopOn, rd, connState, notif,
                   sockCmdOpen, sockRespOpen, connErr>>
    /\ SockFrame

\* Notification thread: the next StateChange is taken from the queue and
\* folded into the State; at the first ready State the scan stops and the
\* receiver is dropped with what is still queued.
NotifFold ==
    /\ notif = "waiting"
    /\ stateQ # <<>>
    /\ connState' = change(connState, Head(stateQ))
    /\ IF ready(change(connState, Head(stateQ)))
       THEN /\ notif' = "ready"
            /\ stateQ' = <<>>
       ELSE /\ notif' = notif
            /\ stateQ' = Tail(stateQ)
    /\ UNCHANGED <<sockPath, lst, served, client, nlines, inbuf, sockCmds,
                   sockResps, takenCmd, wq, loopOn, rd, wr, sockCmdOpen,
                   sockRespOpen, connErr>>
    /\ SockFrame

\* Notification thread: both senders of the state queue are gone and no
\* State was ready: bail!("No ready state").
NotifFail ==
    /\ notif = "waiting"
    /\ stateQ = <<>>
    /\ rd \in {"done", "err", "panicked"}
    /\ wr \in {"done", "err"}
    /\ notif' = "failed"
    /\ UNCHANGED <<sockPath, lst, served, client, nlines, inbuf, sockCmds,
                   sockResps, takenCmd, wq, loopOn, rd, wr, stateQ, connState,
                   sockCmdOpen, sockRespOpen, connErr>>
    /\ SockFrame

\* handle_stream, select arm recv(nr): the notification arrived or its
\* sender is gone; the loop ends and s is dropped.
HandleBreak ==
    /\ lst = "handling"
    /\ loopOn
    /\ notif \in {"ready", "failed"}
    /\ loopOn' = FALSE
    /\ UNCHANGED <<sockPath, lst, served, client, nlines, inbuf, sockCmds,
                   sockResps, takenCmd, wq, rd, wr, stateQ, connState, notif,
                   sockCmdOpen, sockRespOpen, connErr>>
    /\ SockFrame

\* What the listener does once handle_stream is past its joins.
after_joins ==
    CASE notif = "failed" -> "failed"
      [] rd = "panicked" -> "panicked"
      [] wr = "err" -> "failed"
      [] rd = "err" -> "failed"
      [] OTHER -> "accept"

\* handle_stream: notification.join()..?, writes.join(), reads.join(),
\* w_outcome?, r_outcome?; the listener's loop applies `?` to the result
\* and goes back to incoming.next() on Ok.
HandleJoin ==
    /\ lst = "handling"
    /\ ~loopOn
    /\ \/ notif = "failed"
       \/ /\ notif = "ready"
          /\ wr \in {"done", "err"}
          /\ rd \in {"done", "err", "panicked"}
    /\ lst' = after_joins
    /\ sockResps' = resps_at(after_joins)
    /\ UNCHANGED <<sockPath, served, client, nlines, inbuf, sockCmds,
                   takenCmd, wq, loopOn, rd, wr, stateQ, connState, notif,
                   sockCmdOpen, sockRespOpen, connErr>>
    /\ SockFrame

SockNext ==
    \/ SockBind
    \/ SockAccept
    \/ SockAcceptFail
    \/ ClientWrite
    \/ ClientShutdown
    \/ SockReadLine
    \/ SockReportRead
    \/ SockReadEof
    \/ SockReadClose
    \/ SockReadFail
    \/ SockConsume
    \/ SockRespond
    \/ SockCommandsDropped
    \/ SockResponsesDropped
    \/ HandleForward
    \/ HandleRecvErr
    \/ SockWrite
    \/ SockReportWritten
    \/ SockWriteEnd
    \/ SockWriteClose
    \/ NotifFold
    \/ NotifFail
    \/ HandleBreak
    \/ HandleJoin

SpecSocket == SockInit /\ [][SockNext]_vars

\* --------------------------------------------------------- parse_strategy

\* Strings are sequences of one-character strings.
Greedy == <<"g", "r", "e", "e", "d", "y">>
Beam == <<"b", "e", "a", "m">>
Colon == ":"

\* The strings tried as the strategy kind, as N and as the patience.
KindWords == {Greedy, Beam, <<"b", "e", "r", "m">>, <<>>}
NumWords ==
    {<<"0">>, <<"1">>, <<"3">>, <<"1", "2">>, <<"-", "1">>, <<"+", "5">>,
     <<"x">>, <<"-">>, <<>>,
     <<"2", "1", "4", "7", "4", "8", "3", "6", "4", "7">>,
     <<"2", "1", "4", "7", "4", "8", "3", "6", "4", "8">>}
PatienceWords ==
    {<<"0", ".", "5">>, <<"2">>, <<"a", "b", "c">>, <<>>, <<"1", "e", "3">>,
     <<"1", "E", "-", "2">>, <<"1", "e">>, <<"e", "3">>, <<"i", "n", "f">>,
     <<"-", "I", "n", "f", "i", "n", "i", "t", "y">>, <<"N", "a", "N">>,
     <<"5", ".">>, <<".">>}

\* The arguments tried: kind, kind:N and kind:N:patience.
StrategyInputs ==
    KindWords
    \cup {k \o <<Colon>> \o n : k \in KindWords, n \in NumWords}
    \cup {k \o <<Colon>> \o n \o <<Colon>> \o q :
             k \in KindWords, n \in NumWords, q \in PatienceWords}

Digits == {"0", "1", "2", "3", "4", "5", "6", "7", "8", "9"}

DigitValue(c) ==
    CASE c = "0" -> 0 [] c = "1" -> 1 [] c = "2" -> 2 [] c = "3" -> 3
      [] c = "4" -> 4 [] c = "5" -> 5 [] c = "6" -> 6 [] c = "7" -> 7
      [] c = "8" -> 8 [] c = "9" -> 9

\* str::split(':'): the parts between the colons, empty parts included.
RECURSIVE SplitInto(_, _, _)
SplitInto(s, cur, acc) ==
    IF s = <<>> THEN Append(acc, cur)
    ELSE IF Head(s) = Colon
         THEN SplitInto(Tail(s), <<>>, Append(acc, cur))
         ELSE SplitInto(Tail(s), Append(cur, Head(s)), acc)

split(s) == SplitInto(s, <<>>, <<>>)

\* The digits of an i32 accumulated as i32::from_str does, with its
\* overflow check; sign is 1 or -1.
RECURSIVE AccumulateI32(_, _, _)
AccumulateI32(ds, acc, sign) ==
    IF ds = <<>> THEN [ok |-> TRUE, val |-> acc]
    ELSE IF Head(ds) \notin Digits THEN [ok |-> FALSE, val |-> 0]
    ELSE LET d == DigitValue(Head(ds))
             fits == IF sign = 1
                     THEN acc < 214748364 \/ (acc = 214748364 /\ d <= 7)
                     ELSE acc > -214748364 \/ (acc = -214748364 /\ d <= 8)
         IN  IF fits
             THEN AccumulateI32(Tail(ds), acc * 10 + sign * d, sign)
             ELSE [ok |-> FALSE, val |-> 0]

\* str::parse::<i32>: an optional sign, then at least one digit.
parse_i32(w) ==
    IF w = <<>> THEN [ok |-> FALSE, val |-> 0]
    ELSE LET signed == Head(w) \in {"+", "-"}
             ds == IF signed THEN Tail(w) ELSE w
         IN  IF ds = <<>> THEN [ok |-> FALSE, val |-> 0]
             ELSE AccumulateI32(ds, 0, IF Head(w) = "-" THEN -1 ELSE 1)

\* The ASCII letters of the float grammar in lower case.
to_ascii_lowercase(c) ==
    CASE c = "E" -> "e" [] c = "I" -> "i" [] c = "N" -> "n" [] c = "F" -> "f"
      [] c = "T" -> "t" [] c = "Y" -> "y" [] c = "A" -> "a"
      [] OTHER -> c

\* The mantissa of a decimal float: digits with at most one point and at
\* least one digit.
is_mantissa(m) ==
    LET points == {i \in 1..Len(m) : m[i] = "."}
        digits == {i \in 1..Len(m) : m[i] \in Digits}
    IN  /\ Cardinality(points) <= 1
        /\ Cardinality(digits) >= 1
        /\ Cardinality(points) + Cardinality(digits) = Len(m)

\* The exponent of a decimal float, after its e: an optional sign, then at
\* least one digit.
is_exponent(x) ==
    LET signed == x # <<>> /\ Head(x) \in {"+", "-"}
        ds == IF signed THEN Tail(x) ELSE x
    IN  /\ ds # <<>>
        /\ \A i \in 1..Len(ds) : ds[i] \in Digits

\* str::parse::<f32>: an optional sign, then inf, infinity or nan in any
\* case, or a mantissa with an optional exponent.  The value is kept as
\* the word.
parse_f32(w) ==
    LET signed == w # <<>> /\ Head(w) \in {"+", "-"}
        rest == IF signed THEN Tail(w) ELSE w
        lower == [i \in 1..Len(rest) |-> to_ascii_lowercase(rest[i])]
        es == {i \in 1..Len(lower) : lower[i] = "e"}
        e == IF es = {} THEN Len(lower) + 1
             ELSE CHOOSE i \in es : \A j \in es : i <= j
    IN  [ok |-> \/ lower \in {<<"i", "n", "f">>, <<"n", "a", "n">>,
                              <<"i", "n", "f", "i", "n", "i", "t", "y">>}
                \/ /\ is_mantissa(SubSeq(lower, 1, e - 1))
                   /\ es # {} => is_exponent(SubSeq(lower, e + 1, Len(lower))),
         val |-> w]

StrategyOk(strategy) == [ok |-> TRUE, strategy |-> strategy]
StrategyErr(tag, what) == [ok |-> FALSE, err |-> [tag |-> tag, what |-> what]]

\* The second part of the argument parsed as an i32, when there is one:
\* parts.next().map(str::parse).transpose()
second_part(parts) ==
    IF Len(parts) >= 2 THEN Some(parse_i32(parts[2])) ELSE NoneOpt

\* The arms of parse_strategy's match once N is parsed; n is Option<i32>.
strategy_of(kind, n, parts) ==
    CASE kind = Greedy ->
           LET v == IF n.some THEN n.val ELSE 2
           IN  IF v < 1 THEN StrategyErr("AtLeastOne", "best_of")
               ELSE StrategyOk([tag |-> "Greedy", best_of |-> v])
      [] kind = Beam ->
           LET v == IF n.some THEN n.val ELSE 10
               q == IF Len(parts) >= 3 THEN Some(parse_f32(parts[3]))
                    ELSE NoneOpt
           IN  IF v < 1 THEN StrategyErr("AtLeastOne", "beam_size")
               ELSE IF q.some /\ ~q.val.ok
                    THEN StrategyErr("ParseFloatError", parts[3])
               ELSE StrategyOk([tag |-> "Beam", beam_size |-> v,
                                patience |-> IF q.some THEN q.val.val
                                             ELSE <<"0", ".", "0">>])
      [] OTHER -> StrategyErr("Unsupported", kind)

\* parse_strategy as it would be if it checked N after the patience and
\* only rejected negative values.
parse_strategy_nonnegative(s) ==
    LET parts == split(s)
        n == second_part(parts)
    IN  IF n.some /\ ~n.val.ok THEN StrategyErr("ParseIntError", parts[2])
        ELSE IF n.some /\ n.val.val = 0 /\ parts[1] \in {Greedy, Beam}
             THEN strategy_of(parts[1], Some(1), parts)
             ELSE strategy_of(parts[1],
                              IF n.some THEN Some(n.val.val) ELSE NoneOpt,
                              parts)

\* whisper::transcription::parse_strategy
parse_strategy(s) ==
    LET parts == split(s)
        n == second_part(parts)
    IN  IF n.some /\ ~n.val.ok THEN StrategyErr("ParseIntError", parts[2])
        ELSE strategy_of(parts[1],
                         IF n.some THEN Some(n.val.val) ELSE NoneOpt,
                         parts)

\* Everything but the call of parse_strategy stays as it is.
PsFrame == UNCHANGED <<daemonVars, recVars, sockVars, taVars, tpVars, dspVars, wkVars,
      webVars>>

PsInit ==
    /\ DaemonInit
    /\ RecCreated(SessionA)
    /\ SockCreated("absent")
    /\ WorkerSpawned(FALSE)
    /\ WebIdle
    /\ TaIdle
    /\ TpIdle
    /\ DspIdle
    /\ psIn \in StrategyInputs
    /\ psOut = NoneOpt

\* The flag's value parser is applied to the argument.
ParseStrategy ==
    /\ ~psOut.some
    /\ psOut' = Some(parse_strategy(psIn))
    /\ psIn' = psIn
    /\ PsFrame

PsNext ==
    \/ ParseStrategy

SpecStrategy == PsInit /\ [][PsNext]_vars

\* ------------------------------------------------------- transcribe_audio

\* Token texts the engine may return: timestamp and language markers, a
\* bracketed remark of the model, a word.
TokenTexts ==
    {<<"[", "_", "]">>, <<"<", "|", "e", "|", ">">>, <<"<", "|", ">">>,
     <<"<", "|">>, <<"[", "a", "]">>, <<" ", "h", "i">>}

\* Values of the fields t0 and t1 (i64) of whisper_rs::TokenData.
Ticks == {-1, 0, 2}

Tokens == [text : TokenTexts, t0 : Ticks, t1 : Ticks]

\* What state.full(..) returns: Ok(0), or Ok(n) with n not 0.
FullCodes == {0, 1}

RECURSIVE SeqsUpTo(_, _)
SeqsUpTo(S, n) ==
    IF n = 0 THEN {<<>>}
    ELSE LET shorter == SeqsUpTo(S, n - 1)
         IN  shorter \cup {Append(q, x) : q \in shorter, x \in S}

\* str::starts_with and str::ends_with
starts_with(text, prefix) ==
    /\ Len(text) >= Len(prefix)
    /\ SubSeq(text, 1, Len(prefix)) = prefix

ends_with(text, suffix) ==
    /\ Len(text) >= Len(suffix)
    /\ SubSeq(text, Len(text) - Len(suffix) + 1, Len(text)) = suffix

\* whisper::is_internal_token
is_internal_token(text) ==
    \/ starts_with(text, <<"[", "_">>)
    \/ starts_with(text, <<"<", "|">>) /\ ends_with(text, <<"|", ">">>)

\* sttx::Timing::new(t0, t1, text)
Timing(t0, t1, text) == [t0 |-> t0, t1 |-> t1, content |-> text]

\* The loop over the tokens in transcribe_audio: an internal token is
\* skipped, a negative time fails an assert!, any other token is pushed.
RECURSIVE token_segs(_, _)
token_segs(toks, out) ==
    IF toks = <<>> THEN [tag |-> "Ok", val |-> out]
    ELSE LET tk == Head(toks)
             t0 == 10 * tk.t0
             t1 == 10 * tk.t1
         IN  IF is_internal_token(tk.text)
             THEN token_segs(Tail(toks), out)
             ELSE IF ~(t0 >= 0) \/ ~(t1 >= 0)
                  THEN [tag |-> "Panic", val |-> <<>>]
                  ELSE token_segs(Tail(toks),
                                  Append(out, Timing(t0, t1, tk.text)))

\* Whisper::transcribe_audio, from the engine's return on.
transcribe_audio(engine) ==
    IF engine.full # 0 THEN [tag |-> "Err", val |-> <<>>]
    ELSE token_segs(engine.toks, <<>>)

\* Everything but the call of transcribe_audio stays as it is.
TaFrame == UNCHANGED <<daemonVars, recVars, sockVars, psVars, tpVars, dspVars, wkVars,
      webVars>>

TaInit ==
    /\ DaemonInit
    /\ RecCreated(SessionA)
    /\ SockCreated("absent")
    /\ WorkerSpawned(FALSE)
    /\ WebIdle
    /\ PsIdle
    /\ TpIdle
    /\ DspIdle
    /\ tokens \in [full : FullCodes, toks : SeqsUpTo(Tokens, MaxTokens)]
    /\ timings = NoneOpt

\* The worker runs transcribe_audio on a job.
TranscribeAudio ==
    /\ ~timings.some
    /\ timings' = Some(transcribe_audio(tokens))
    /\ tokens' = tokens
    /\ TaFrame

TaNext ==
    \/ TranscribeAudio

SpecTranscribe == TaInit /\ [][TaNext]_vars

\* ------------------------------------------------- Transcription::process

\* Contents of sentences: a bracketed remark of the model, and speech.
SentenceTexts == {<<"[", "a", "]">>, <<" ", "h", "i">>, <<" ", "y", "o", ".">>}

\* Start and end times of sentences, in milliseconds.
SentenceTimes == {0, 10}

Sentences ==
    {Timing(a, b, c) : a \in SentenceTimes, b \in SentenceTimes,
                       c \in SentenceTexts}

Min2(a, b) == IF a <= b THEN a ELSE b
Max2(a, b) == IF a >= b THEN a ELSE b

\* Collecting Timings into an Option<Timing>: nothing for no Timing, else
\* one Timing of the joined contents from the least start to the greatest
\* end.
RECURSIVE collect_from(_, _)
collect_from(acc, ts) ==
    IF ts = <<>> THEN acc
    ELSE collect_from(Timing(Min2(acc.t0, Head(ts).t0),
                             Max2(acc.t1, Head(ts).t1),
                             acc.content \o Head(ts).content),
                      Tail(ts))

collect(ts) ==
    IF ts = <<>> THEN NoneOpt ELSE Some(collect_from(Head(ts), Tail(ts)))

\* process as it would be without its filter.
process_unfiltered(ts) == collect(ts)

\* Transcription::process, from the sentences on.
process(ts) ==
    collect(SelectSeq(ts, LAMBDA t : ~starts_with(t.content, <<"[">>)))

\* Everything but the call of process stays as it is.
TpFrame == UNCHANGED <<daemonVars, recVars, sockVars, psVars, taVars, dspVars, wkVars,
      webVars>>

TpInit ==
    /\ DaemonInit
    /\ RecCreated(SessionA)
    /\ SockCreated("absent")
    /\ WorkerSpawned(FALSE)
    /\ WebIdle
    /\ PsIdle
    /\ TaIdle
    /\ DspIdle
    /\ sentences \in SeqsUpTo(Sentences, MaxSentences)
    /\ processed = NoneOpt

\* The daemon post-processes a transcription.
Process ==
    /\ ~processed.some
    /\ processed' = Some(process(sentences))
    /\ sentences' = sentences
    /\ TpFrame

TpNext ==
    \/ Process

SpecProcess == TpInit /\ [][TpNext]_vars

\* ---------------------------------------------------------- audio::process

\* Sample rates of input streams whose ratio to 16 kHz is exact in f64.
SourceRates == {8000, 16000, 48000}

\* Processor<O, 1> and Processor<O, 2>
ChannelCounts == {1, 2}

\* dasp's from_iter and from_interleaved_samples_iter: the frames of a
\* batch of samples; a trailing incomplete frame is no frame.
frames_of(n, c) == n \div c

\* signal.until_exhausted() on a Converter made by from_hz_to_hz, counted:
\* the converter is exhausted once its source is (all its frames were
\* taken) and its interpolation value, here in units of 1/TargetHz, has
\* reached one frame; until then each output first takes one source frame
\* per whole frame of the interpolation value and then advances the value
\* by rate / TargetHz.
RECURSIVE until_exhausted(_, _, _, _, _)
until_exhausted(frames, taken, value, rate, out) ==
    IF taken >= frames /\ value >= TargetHz THEN out
    ELSE LET whole == value \div TargetHz
         IN  until_exhausted(frames, taken + whole,
                             value - whole * TargetHz + rate, rate, out + 1)

\* Process::mono_samples, counted: signal(input) makes a new Converter,
\* with a new interpolator, for every batch.
mono_samples(n, rate, c) == until_exhausted(frames_of(n, c), 0, 0, rate, 0)

\* Everything but the processor stays as it is.
DspFrame == UNCHANGED <<daemonVars, recVars, sockVars, psVars, taVars, tpVars, wkVars,
      webVars>>

DspInit ==
    /\ DaemonInit
    /\ RecCreated(SessionA)
    /\ SockCreated("absent")
    /\ WorkerSpawned(FALSE)
    /\ WebIdle
    /\ PsIdle
    /\ TaIdle
    /\ TpIdle
    /\ srcRate \in SourceRates
    /\ channels \in ChannelCounts
    /\ fed = 0
    /\ emitted = 0
    /\ unsent = 0
    /\ sinkOpen = TRUE
    /\ dspPc = "running"
    /\ send_failures = 0
    /\ errors_sent = 0

\* Processor::send and Processor::send_error: self.sink.send(..) on the
\* unbounded sink channel succeeds exactly while its receiver is alive.
send(open) == open
send_error(open) == open

\* self.send(sample).or_else(|e| self.send_error(e)).expect(..) for one
\* sample: the sample is sent; or the error is sent in its place; or both
\* sends fail and expect panics.
send_sample(open) ==
    IF send(open) THEN "sent"
    ELSE IF send_error(open) THEN "error_sent" ELSE "panic"

\* Process::write_input_data is called: the device callback hands over a
\* batch of whole frames and mono_samples(input).collect_vec() holds the
\* resampled samples the loop is going to send.
WriteInputData ==
    /\ dspPc = "running"
    /\ unsent = 0
    /\ \E n \in 1..(MaxFed - fed) :
          /\ n % channels = 0
          /\ fed' = fed + n
          /\ unsent' = mono_samples(n, srcRate, channels)
    /\ UNCHANGED <<srcRate, channels, emitted, sinkOpen, dspPc,
                   send_failures, errors_sent>>
    /\ DspFrame

\* One turn of the loop of write_input_data: the next sample is sent, or
\* the error in its place, or expect panics and the callback is over with
\* the rest of its batch not attempted.
SendSample ==
    /\ dspPc = "running"
    /\ unsent > 0
    /\ LET r == send_sample(sinkOpen)
       IN  CASE r = "sent" ->
                  /\ emitted' = emitted + 1
                  /\ unsent' = unsent - 1
                  /\ UNCHANGED <<dspPc, send_failures, errors_sent>>
             [] r = "error_sent" ->
                  /\ errors_sent' = errors_sent + 1
                  /\ send_failures' = send_failures + 1
                  /\ unsent' = unsent - 1
                  /\ UNCHANGED <<dspPc, emitted>>
             [] r = "panic" ->
                  /\ dspPc' = "panicked"
                  /\ send_failures' = send_failures + 1
                  /\ UNCHANGED <<emitted, unsent, errors_sent>>
    /\ UNCHANGED <<srcRate, channels, fed, sinkOpen>>
    /\ DspFrame

\* The receiver of the sink channel is dropped, between two callbacks or
\* between two sends of one.
SinkReceiverDropped ==
    /\ sinkOpen
    /\ dspPc = "running"
    /\ sinkOpen' = FALSE
    /\ UNCHANGED <<srcRate, channels, fed, emitted, unsent, dspPc,
                   send_failures, errors_sent>>
    /\ DspFrame

DspNext ==
    \/ WriteInputData
    \/ SendSample
    \/ SinkReceiverDropped

SpecProcessor == DspInit /\ [][DspNext]_vars

\* ---------------------------------------------------- transcription worker

\* The models jobs name (two of transcription::Model).
WorkerModels == {"Base", "Small"}

\* The sample rates a job may carry: the rate of the recording, or the
\* one a Transcribe command names, which may be 0.
JobRates == {0, TargetHz}

\* Job::duration, whether it returns: assert!(self.sample_rate > 0)
duration(job) == IF job.sample_rate > 0 THEN "Ok" ELSE "Panic"

\* What Whisper::transcribe_audio gives for a job: its Timings, an error,
\* or a panic of its assert!.
TranscribeOutcomes == {"Ok", "Err", "Panic"}

\* Everything but the worker and its submitter stays as it is, the log
\* level included.
WorkerFrame ==
    UNCHANGED <<daemonVars, recVars, sockVars, pureVars, webVars, debug_log>>

WorkerInit ==
    /\ DaemonInit
    /\ RecCreated(SessionA)
    /\ SockCreated("absent")
    /\ PureIdle
    /\ \E level \in BOOLEAN : WorkerSpawned(level)
    /\ WebIdle

\* The worker thread has ended: its receiver of jobs and its sender of
\* results are dropped.
worker_ended ==
    wkPc \in {"exited", "load_failed", "send_failed", "panicked",
              "duration_panicked"}

\* The submitter as it would be if it did not wait for the result.
after_send_no_wait == "ready"

\* Where the submitter stands after to_whisper.send(job)?: at
\* whisper_output.iter().next().
after_send == "waiting"

\* to_whisper.send(job)? : the job is queued, or the send fails because
\* the worker is gone and the submitter returns the error.
SubmitJob ==
    /\ subPc = "ready"
    /\ submitted < MaxJobs
    /\ IF worker_ended
       THEN /\ subPc' = "returned"
            /\ UNCHANGED <<from_recordings, submitted>>
       ELSE \E m \in WorkerModels, r \in JobRates :
              /\ from_recordings' =
                     Append(from_recordings,
                            [id |-> submitted + 1, model |-> m,
                             sample_rate |-> r])
              /\ submitted' = submitted + 1
              /\ subPc' = after_send
    /\ UNCHANGED <<whisper_output, wkPc, wkJob, whispers, constructed, pulled,
                   results_sent, consumed>>
    /\ WorkerFrame

\* whisper_output.iter().next().ok_or(NoTranscriptionResult)? : the next
\* result is taken, or there is none and never will be.
TakeResult ==
    /\ subPc = "waiting"
    /\ \/ /\ whisper_output # <<>>
          /\ consumed' = Append(consumed, [job |-> submitted,
                                           result |-> Head(whisper_output)])
          /\ whisper_output' = Tail(whisper_output)
          /\ subPc' = "ready"
       \/ /\ whisper_output = <<>>
          /\ worker_ended
          /\ subPc' = "returned"
          /\ UNCHANGED <<whisper_output, consumed>>
    /\ UNCHANGED <<from_recordings, wkPc, wkJob, whispers, submitted,
                   constructed, pulled, results_sent>>
    /\ WorkerFrame

\* run_loop returns between two jobs: to_whisper and whisper_output are
\* dropped.
SubmitterReturns ==
    /\ subPc = "ready"
    /\ subPc' = "returned"
    /\ UNCHANGED <<from_recordings, whisper_output, wkPc, wkJob, whispers,
                   submitted, constructed, pulled, results_sent, consumed>>
    /\ WorkerFrame

\* The cache lookup as it would be if every entry were vacant.
entry_always_vacant(cache, m) == TRUE

\* whispers.entry(job.model()) is Entry::Vacant
entry_vacant(cache, m) == m \notin cache

\* Worker: `for job in &jobs` takes a job.  log::debug!(.., job.duration())
\* evaluates job.duration() when the level lets it, and its assert panics
\* for a job whose sample rate is 0, before the cache is looked at.  Then
\* a model without an entry gets one from Whisper::new(..)?, which may
\* fail and end the thread.
WorkerTakeJob ==
    /\ wkPc = "recv"
    /\ from_recordings # <<>>
    /\ LET job == Head(from_recordings)
       IN  /\ from_recordings' = Tail(from_recordings)
           /\ pulled' = Append(pulled, job)
           /\ wkJob' = Some(job)
           /\ IF debug_log /\ duration(job) = "Panic"
              THEN /\ wkPc' = "duration_panicked"
                   /\ UNCHANGED <<whispers, constructed>>
              ELSE IF entry_vacant(whispers, job.model)
              THEN \/ /\ whispers' = whispers \cup {job.model}
                      /\ constructed' = Append(constructed, job.model)
                      /\ wkPc' = "transcribe"
                   \/ /\ wkPc' = "load_failed"
                      /\ UNCHANGED <<whispers, constructed>>
              ELSE /\ wkPc' = "transcribe"
                   /\ UNCHANGED <<whispers, constructed>>
    /\ UNCHANGED <<whisper_output, subPc, submitted, results_sent, consumed>>
    /\ WorkerFrame

\* Worker: transcribe_audio(&job), then snd.send(results)?.
WorkerSendResult ==
    /\ wkPc = "transcribe"
    /\ \E o \in TranscribeOutcomes :
          IF o = "Panic"
          THEN /\ wkPc' = "panicked"
               /\ UNCHANGED <<whisper_output, results_sent>>
          ELSE IF subPc = "returned"
          THEN /\ wkPc' = "send_failed"
               /\ UNCHANGED <<whisper_output, results_sent>>
          ELSE LET res == [id |-> wkJob.val.id, outcome |-> o]
               IN  /\ whisper_output' = Append(whisper_output, res)
                   /\ results_sent' = Append(results_sent, res)
                   /\ wkPc' = "recv"
    /\ UNCHANGED <<from_recordings, wkJob, whispers, subPc, submitted,
                   constructed, pulled, consumed>>
    /\ WorkerFrame

\* Worker: the jobs channel is empty and its sender is dropped, the loop
\* ends and the thread returns Ok(()).
WorkerLoopEnd ==
    /\ wkPc = "recv"
    /\ from_recordings = <<>>
    /\ subPc = "returned"
    /\ wkPc' = "exited"
    /\ UNCHANGED <<from_recordings, whisper_output, wkJob, whispers, subPc,
                   submitted, constructed, pulled, results_sent, consumed>>
    /\ WorkerFrame

WorkerNext ==
    \/ SubmitJob
    \/ TakeResult
    \/ SubmitterReturns
    \/ WorkerTakeJob
    \/ WorkerSendResult
    \/ WorkerLoopEnd

SpecWorker == WorkerInit /\ [][WorkerNext]_vars

\* ---------------------------------------------------------- HTTP handlers

\* Everything but the handlers and their channels stays as it is.
WebFrame == UNCHANGED <<daemonVars, recVars, sockVars, pureVars, wkVars>>

WebInit ==
    /\ DaemonInit
    /\ RecCreated(SessionA)
    /\ SockCreated("absent")
    /\ PureIdle
    /\ WorkerSpawned(FALSE)
    /\ WebIdle

\* AppEvents::request, first line: self.0.send(cmd) blocks while the
\* bounded channel is full.
HandlerSend ==
    /\ \E h \in Handlers :
          /\ webPc[h] = "idle"
          /\ webReqs[h] < MaxRequests
          /\ Len(webCommands) < CmdChanCap
          /\ webCommands' =
                 Append(webCommands, [from |-> h, n |-> webReqs[h] + 1])
          /\ webReqs' = [webReqs EXCEPT ![h] = @ + 1]
          /\ webPc' = [webPc EXCEPT ![h] = "waiting"]
    /\ UNCHANGED <<webGot, webResponses, webDaemon>>
    /\ WebFrame

\* AppEvents::request, second line: self.1.recv() on the receiver all
\* handlers share takes whatever response is next.
HandlerRecv ==
    /\ \E h \in Handlers :
          /\ webPc[h] = "waiting"
          /\ webResponses # <<>>
          /\ webGot' = [webGot EXCEPT ![h] =
                           Append(@, [own |-> [from |-> h, n |-> webReqs[h]],
                                      got |-> Head(webResponses)])]
          /\ webResponses' = Tail(webResponses)
          /\ webPc' = [webPc EXCEPT ![h] = "idle"]
    /\ UNCHANGED <<webReqs, webCommands, webDaemon>>
    /\ WebFrame

\* The daemon loop takes the next command.
WebDaemonTake ==
    /\ ~webDaemon.some
    /\ webCommands # <<>>
    /\ webDaemon' = Some(Head(webCommands))
    /\ webCommands' = Tail(webCommands)
    /\ UNCHANGED <<webPc, webReqs, webGot, webResponses>>
    /\ WebFrame

\* The daemon loop sends its response to the command it took.
WebDaemonAnswer ==
    /\ webDaemon.some
    /\ Len(webResponses) < RespChanCap
    /\ webResponses' = Append(webResponses, webDaemon.val)
    /\ webDaemon' = NoneOpt
    /\ UNCHANGED <<webPc, webReqs, webGot, webCommands>>
    /\ WebFrame

WebNext ==
    \/ HandlerSend
    \/ HandlerRecv
    \/ WebDaemonTake
    \/ WebDaemonAnswer

SpecWeb == WebInit /\ [][WebNext]_vars

\* ---------------------------------------------------------------- claims

\* Two responses are the same variant with the same payload.
SameResp(a, b) == a.type = b.type /\ a = b

\* The loop has finished with the i-th command it consumed: it went on to
\* the next command or to the end of the loop.
Completed(i) == i < Len(log) \/ pc \in {"recv", "exit_send", "join"}

\* The transition table of the state machine, as the specification gives it.
TableAccepts(st, cmd) ==
    CASE cmd.type = "start" -> st.audio.tag \in {"Idle", "Stopped"}
      [] cmd.type = "stop" -> st.audio.tag = "Started"
      [] cmd.type = "mode" -> st.audio.tag # "Started" /\ cmd.data # st.mode
      [] OTHER -> TRUE

\* C1: a Start(S) consumed while audio is Idle builds a Recording and is
\* answered by exactly one Ack, never by Nil.
C1_StartFromIdleIsAcked ==
    \A i \in 1..Len(log) :
        (log[i].cmd.type = "start" /\ log[i].pre.audio.tag = "Idle"
            /\ Completed(i))
        => /\ log[i].rec_post.some
           /\ Len(log[i].resps) = 1
           /\ log[i].resps[1].type = "ack"

\* C2: a Stop consumed while running submits exactly one job carrying the
\* model and prompt of the session of the matching Start and is answered by
\* exactly one Transcription.
C2_StopWhileRunningTranscribes ==
    \A i \in 1..Len(log) :
        (log[i].cmd.type = "stop" /\ running(log[i].pre) /\ Completed(i))
        => /\ log[i].jobs_sent = 1
           /\ Len(log[i].resps) = 1
           /\ log[i].resps[1].type = "transcription"

\* C3: for Start, Stop and Mode the loop answers Nil exactly when the
\* transition table rejects the command.
C3_NilIffRejected ==
    \A i \in 1..Len(log) :
        (log[i].cmd.type \in {"start", "stop", "mode"} /\ Completed(i))
        => /\ Len(log[i].resps) = 1
           /\ (log[i].resps[1].type = "nil")
                <=> ~TableAccepts(log[i].pre, log[i].cmd)

\* C4: handle(Start(S)) is accepted iff audio is Idle or Stopped; accepted,
\* audio becomes Started(S) and mode is kept; from Started(S1) it is rejected
\* and the state, session included, is kept.
C4_StartTransition ==
    \A i \in 1..Len(log) :
        LET e == log[i] IN
        e.cmd.type = "start" =>
           /\ e.accepted <=> e.pre.audio.tag \in {"Idle", "Stopped"}
           /\ e.accepted => /\ e.handled.audio = Started(e.cmd.data)
                            /\ e.handled.mode = e.pre.mode
           /\ e.pre.audio.tag = "Started" => ~e.accepted /\ e.handled = e.pre

\* C4 witness: a Start accepted from Stopped(S1) with another session S2.
C4_Witness ==
    \E i \in 1..Len(log) :
        /\ log[i].cmd.type = "start"
        /\ log[i].pre.audio.tag = "Stopped"
        /\ log[i].pre.audio.session # log[i].cmd.data
        /\ log[i].accepted

\* C5: handle(Stop) is accepted iff audio is Started(S); accepted, audio
\* becomes Stopped(S) with the same session and mode is kept; otherwise the
\* state is kept, so the second of two successive Stops changes nothing.
C5_StopTransition ==
    \A i \in 1..Len(log) :
        LET e == log[i] IN
        e.cmd.type = "stop" =>
           /\ e.accepted <=> e.pre.audio.tag = "Started"
           /\ e.accepted => /\ e.handled.audio = Stopped(e.pre.audio.session)
                            /\ e.handled.mode = e.pre.mode
           /\ ~e.accepted => e.handled = e.pre
           /\ (i > 1 /\ log[i - 1].cmd.type = "stop")
                => ~e.accepted /\ e.post = log[i - 1].post

\* C5 witness: an accepted Stop followed at once by a second Stop.
C5_Witness ==
    \E i \in 2..Len(log) :
        /\ log[i].cmd.type = "stop"
        /\ log[i - 1].cmd.type = "stop"
        /\ log[i - 1].accepted

\* C6: handle(Mode(m)) is accepted iff not running and m differs from the
\* current mode; accepted, only mode changes; otherwise the state is kept.
\* So no step taken from a running state changes the mode.
C6_ModeTransition ==
    \A i \in 1..Len(log) :
        LET e == log[i] IN
        /\ e.cmd.type = "mode" =>
             /\ e.accepted <=> (~running(e.pre) /\ e.cmd.data # e.pre.mode)
             /\ e.accepted => e.handled = [e.pre EXCEPT !.mode = e.cmd.data]
             /\ ~e.accepted => e.handled = e.pre
        /\ running(e.pre) => e.post.mode = e.pre.mode

\* C6 witness: one Mode accepted, and one Mode naming another mode rejected
\* because the state is running.
C6_Witness ==
    /\ \E i \in 1..Len(log) : log[i].cmd.type = "mode" /\ log[i].accepted
    /\ \E i \in 1..Len(log) :
         /\ log[i].cmd.type = "mode"
         /\ running(log[i].pre)
         /\ log[i].cmd.data # log[i].pre.mode

\* C7: in every state the command stream reaches, running() holds iff audio
\* is Started(.), and it is false in Idle and in Stopped(.).
C7_RunningIffStarted ==
    /\ state.audio.tag \in {"Idle", "Started", "Stopped"}
    /\ running(state) <=> state.audio.tag = "Started"
    /\ state.audio.tag \in {"Idle", "Stopped"} => ~running(state)
    /\ \A i \in 1..Len(log) :
         running(log[i].post) <=> log[i].post.audio.tag = "Started"

\* C7 witness: the state is Stopped after it has been Started.
C7_Witness ==
    /\ state.audio.tag = "Stopped"
    /\ \E i \in 1..Len(log) : log[i].post.audio.tag = "Started"

\* C8: a Mode(m) consumed while not running, m other than the current mode,
\* is answered by exactly one NewMode(m).
C8_ModeAnsweredByNewMode ==
    \A i \in 1..Len(log) :
        (log[i].cmd.type = "mode" /\ ~running(log[i].pre)
            /\ log[i].cmd.data # log[i].pre.mode /\ Completed(i))
        => /\ Len(log[i].resps) = 1
           /\ SameResp(log[i].resps[1], NewMode(log[i].cmd.data))

\* C9: a Mode consumed while running is answered by Nil and changes neither
\* the state nor the recording, and a Stop that follows it is accepted and
\* answered by a Transcription.
C9_ModeWhileRunningThenStop ==
    \A i \in 1..Len(log) :
        (log[i].cmd.type = "mode" /\ running(log[i].pre) /\ Completed(i))
        => /\ Len(log[i].resps) = 1
           /\ log[i].resps[1].type = "nil"
           /\ log[i].post = log[i].pre
           /\ log[i].rec_post = log[i].rec_pre
           /\ (i + 1 <= Len(log) /\ log[i + 1].cmd.type = "stop"
                 /\ Completed(i + 1))
                => /\ log[i + 1].accepted
                   /\ Len(log[i + 1].resps) = 1
                   /\ log[i + 1].resps[1].type = "transcription"

\* C10: a Respond(r) consumed in any state is answered by exactly r, and
\* neither the state machine nor the recording changes.
C10_RespondPassesThrough ==
    \A i \in 1..Len(log) :
        LET e == log[i] IN
        e.cmd.type = "respond" =>
           /\ e.post = e.pre
           /\ e.rec_post = e.rec_pre
           /\ Len(e.resps) <= 1
           /\ Completed(i) => /\ Len(e.resps) = 1
                              /\ SameResp(e.resps[1], e.cmd.data)

\* C10 witness: Respond answered while Started and while Stopped.
C10_Witness ==
    \A t \in {"Started", "Stopped"} :
        \E i \in 1..Len(log) :
            /\ log[i].cmd.type = "respond"
            /\ log[i].pre.audio.tag = t
            /\ Len(log[i].resps) = 1

\* C11: once the daemon loop has consumed Reset, in whatever state, run_loop
\* has returned Ok(true), that Reset is the last command it ever processes,
\* and the status the process ends with is 1.
C11_ResetReturnsTrueAndExitsOne ==
    \A i \in 1..Len(log) :
        log[i].cmd.type = "reset" =>
            /\ i = Len(log)
            /\ pc = "returned"
            /\ ret = "Ok(true)"
            /\ exit_status.some => exit_status.val = 1

\* The responses sent so far that are Exit responses.
ExitsSent == {k \in 1..Len(sent) : sent[k].type = "exit"}

\* C12: whenever the daemon loop has been left, by the commands channel
\* closing or by Reset, exactly one Exit has been sent, it is the last
\* response sent, and after a Reset it carries code 1.
C12_ExactlyOneExitOnEveryLoopExit ==
    (pc \in {"join", "returned"} /\ ret # "Err(Send)") =>
        /\ Cardinality(ExitsSent) = 1
        /\ Len(sent) \in ExitsSent
        /\ (ret = "Ok(true)" => sent[Len(sent)].data = 1)

\* C13: every command the loop has consumed has at most one response; once
\* the loop has gone on past it, it has exactly one; and while it has none,
\* the loop body is still on its way to the send or run_loop is over (it
\* returned or unwound, which drops the responses sender).
C13_OneResponsePerCommand ==
    \A i \in 1..Len(log) :
        /\ Len(log[i].resps) <= 1
        /\ (Completed(i) => Len(log[i].resps) = 1)
        /\ (~Completed(i) =>
               pc \in {"send", "await_result", "returned", "panicked"})

\* A rejected command and a Respond were each answered once, then a Reset
\* ended the loop without a response.
C13_Witness ==
    /\ Len(log) >= 3
    /\ \E i \in 1..(Len(log) - 1) :
          ~log[i].yielded.some /\ Len(log[i].resps) = 1
    /\ \E i \in 1..(Len(log) - 1) :
          log[i].cmd.type = "respond" /\ Len(log[i].resps) = 1
    /\ log[Len(log)].cmd.type = "reset"
    /\ Len(log[Len(log)].resps) = 0
    /\ pc = "returned"

\* The responses of the socket transport that are on their way to the
\* peer and not written yet: queued for handle_stream or for write_thread.
Unwritten ==
    {sockResps[k] : k \in 1..Len(sockResps)} \cup {wq[k] : k \in 1..Len(wq)}

\* A step of the socket transport.  When write_thread has written a
\* response, no response to an earlier line of the same connection is
\* still to be written; and when the consumer takes a command from the
\* queue, the response to every earlier line of the same connection has
\* been written to the peer.
ResponseObservedFirst ==
    /\ (wr = "running" /\ wr' = "report") =>
          \A x \in Unwritten :
              x[1] = Head(wq)[1] => x[2] >= Head(wq)[2]
    /\ (takenCmd = NoneOpt /\ takenCmd' # NoneOpt) =>
          \A x \in Unwritten :
              x[1] = Head(sockCmds)[1] => x[2] >= Head(sockCmds)[2]

\* C14: the commands delivered on one connection are answered in their
\* order, and the response to a command has been observed by the
\* transport, written to the connection, before the next command of that
\* connection is taken from the command queue.
C14_ObservedBeforeNextTaken == [][ResponseObservedFirst]_vars

\* C15: a Start consumed in Idle whose session no device configuration
\* satisfies is answered by exactly one Error, run_loop does not block on it,
\* audio stays Idle, and a Stop that follows it is answered Nil.
C15_UnsupportedStartIsError ==
    \A i \in 1..Len(log) :
        ( /\ log[i].cmd.type = "start"
          /\ log[i].pre.audio.tag = "Idle"
          /\ supported_configs(log[i].cmd.data) = {} ) =>
            /\ log[i].post.audio.tag = "Idle"
            /\ (i = Len(log) => pc # "start_blocked")
            /\ (Completed(i) =>
                   Len(log[i].resps) = 1 /\ log[i].resps[1].type = "error")
            /\ ( ( /\ i < Len(log)
                   /\ log[i + 1].cmd.type = "stop"
                   /\ Completed(i + 1) ) =>
                     log[i + 1].resps = <<Nil>> )

\* The i-th command consumed is a Stop whose job, sent by the Stop arm, the
\* worker answered with an error.
StopJobFailed(i) ==
    /\ log[i].cmd.type = "stop"
    /\ log[i].result.some
    /\ ~log[i].result.val.ok

StopFailed(i) ==
    /\ log[i].cmd.type = "stop"
    /\ log[i].stop_result = "Err"

StopJobUnanswered ==
    /\ Len(log) > 0
    /\ log[Len(log)].cmd.type = "stop"
    /\ log[Len(log)].jobs_sent = 1
    /\ ~log[Len(log)].result.some
    /\ worker = "failed"

C19_ShutdownTerminates ==
    pc = "join" =>
        \/ worker = "exited"
        \/ jobs = <<>> /\ ~to_whisper_alive

\* C20: handle accepts Reset and Respond(r) in every state and leaves audio
\* and mode as they were.
C20_ResetRespondFrame ==
    \A i \in 1..Len(log) :
        log[i].cmd.type \in {"reset", "respond"} =>
            /\ log[i].accepted
            /\ log[i].handled = log[i].pre

\* Respond was handled while Started and Reset while Stopped.
C20_Witness ==
    /\ \E i \in 1..Len(log) :
          /\ log[i].cmd.type = "respond"
          /\ log[i].pre.audio.tag = "Started"
          /\ log[i].accepted
          /\ log[i].handled = log[i].pre
    /\ \E i \in 1..Len(log) :
          /\ log[i].cmd.type = "reset"
          /\ log[i].pre.audio.tag = "Stopped"
          /\ log[i].accepted
          /\ log[i].handled = log[i].pre

\* The value of the last Mode command handle accepted among the first i
\* commands consumed, or the default mode if it accepted none.
RECURSIVE LastAcceptedMode(_)
LastAcceptedMode(i) ==
    IF i = 0 THEN DefaultMode
    ELSE IF log[i].cmd.type = "mode" /\ log[i].accepted
         THEN log[i].cmd.data
         ELSE LastAcceptedMode(i - 1)

\* C21: every Transcription the daemon sends in answer to a Stop, and to a
\* Transcribe as well, carries the state machine's mode when the command
\* was processed, which is the value of the last Mode command the state
\* machine accepted, or LiveTyping if it accepted none.  (A Transcription
\* echoed for a Respond command is the client's own.)
C21_TranscriptionCarriesMode ==
    \A i \in 1..Len(log) :
        \A k \in 1..Len(log[i].resps) :
            ( /\ log[i].cmd.type \in {"stop", "transcribe"}
              /\ log[i].resps[k].type = "transcription" ) =>
                /\ log[i].resps[k].data.mode = LastAcceptedMode(i)
                /\ log[i].resps[k].data.mode = log[i].post.mode

\* A Stop was answered by a Transcription carrying Standard, the value of
\* a Mode command accepted before it, while the default is LiveTyping.
C21_Witness ==
    \E i \in 1..Len(log) :
        /\ log[i].cmd.type = "stop"
        /\ Len(log[i].resps) = 1
        /\ log[i].resps[1].type = "transcription"
        /\ log[i].resps[1].data.mode = "Standard"
        /\ \E j \in 1..(i - 1) :
              log[j].cmd.type = "mode" /\ log[j].accepted

\* C22 as stated: whenever start() has returned, the device callback had
\* delivered at least one batch of samples by then.
C22_BatchDeliveredBeforeStartReturns ==
    atStart.some => atStart.val.batches >= 1

\* C22, amended: whenever start() has returned, the capture thread had
\* built the input stream and stream.play() had returned Ok by then; no
\* batch need have been delivered.
C22_StreamPlayingBeforeStartReturns ==
    atStart.some => atStart.val.stream = "playing"

\* start() returned while the stream was playing and before any callback.
C22_Witness ==
    /\ atStart.some
    /\ atStart.val.stream = "playing"
    /\ atStart.val.batches = 0
    /\ caller = "started"

\* C23: once stop() has returned Ok, its buffer is exactly the samples the
\* callbacks sent, in send order, and no callback can deliver any more: the
\* stream is dropped and the sink channel is drained.
C23_StopReturnsAllSamples ==
    (caller = "stopped" /\ stopRes.some /\ stopRes.val.ok) =>
        /\ stopRes.val.audio = produced
        /\ stream = "dropped"
        /\ sinkChan = <<>>
        /\ ~ENABLED Callback

\* stop() returned a buffer of several batches, one of them sent after
\* start() had returned.
C23_Witness ==
    /\ caller = "stopped"
    /\ stopRes.some
    /\ stopRes.val.ok
    /\ Len(stopRes.val.audio) >= 3
    /\ batches >= 2
    /\ atStart.val.batches < batches

\* C24, for the filesystem-socket transport: at most one command is queued
\* towards the consumer of the commands and at most one response is queued
\* back.
C24_AtMostOneQueuedEachWay ==
    /\ Len(sockCmds) <= 1
    /\ Len(sockResps) <= 1

\* C28: after a connection ended with a recoverable error, a broken pipe
\* while writing or a failed read, the listener thread is still running:
\* it has neither returned an error nor panicked.
C28_ListenerSurvivesConnectionError ==
    connErr # {} => lst \notin {"failed", "panicked"}

\* The kind of an argument is its text before the first colon; its N is
\* the integer between the first and the second colon, when the text
\* there is one.
KindOf(s) == split(s)[1]
GivenN(s) ==
    LET n == second_part(split(s))
    IN  IF n.some /\ n.val.ok THEN Some(n.val.val) ELSE NoneOpt

\* C25 as stated: an argument whose kind is neither greedy nor beam is
\* rejected, an argument with N < 1 is rejected with an "at least 1"
\* error, and an accepted argument yields a strategy whose best_of or
\* beam_size is the given N and is at least 1.
C25_RejectsBadKindAndSmallN ==
    psOut.some =>
        LET res == psOut.val
            n == GivenN(psIn)
        IN  /\ KindOf(psIn) \notin {Greedy, Beam} => ~res.ok
            /\ (n.some /\ n.val < 1) =>
                   (~res.ok /\ res.err.tag = "AtLeastOne")
            /\ res.ok =>
                   LET v == IF res.strategy.tag = "Greedy"
                            THEN res.strategy.best_of
                            ELSE res.strategy.beam_size
                   IN  v >= 1 /\ (n.some => v = n.val)

\* C25, amended: an argument whose kind is neither greedy nor beam is
\* rejected with a typed error, an argument of kind greedy or beam with
\* N < 1 is rejected with an "at least 1" error, and an accepted argument
\* yields a strategy whose best_of or beam_size is the given N and is at
\* least 1.
C25_RejectsWithTypedError ==
    psOut.some =>
        LET res == psOut.val
            n == GivenN(psIn)
            kind == KindOf(psIn)
        IN  /\ kind \notin {Greedy, Beam} => ~res.ok
            /\ (kind \in {Greedy, Beam} /\ n.some /\ n.val < 1) =>
                   (~res.ok /\ res.err.tag = "AtLeastOne")
            /\ res.ok =>
                   LET v == IF res.strategy.tag = "Greedy"
                            THEN res.strategy.best_of
                            ELSE res.strategy.beam_size
                   IN  v >= 1 /\ (n.some => v = n.val)

\* The argument beam:0 was rejected with the "at least 1" error.
C25_Witness ==
    /\ psIn = Beam \o <<Colon, "0">>
    /\ psOut.some
    /\ ~psOut.val.ok
    /\ psOut.val.err.tag = "AtLeastOne"

\* The tokens of a sequence whose text is not internal, in their order.
NotInternal(toks) == SelectSeq(toks, LAMBDA tk : ~is_internal_token(tk.text))

\* C26: whenever the engine returned a token sequence, the worker's
\* output is exactly the tokens whose text is not internal, in token
\* order, each as a Timing of ten times its ticks, and every emitted
\* Timing has 0 <= t0 <= t1.
C26_OutputIsNonInternalTokens ==
    (timings.some /\ tokens.full = 0) =>
        LET kept == NotInternal(tokens.toks)
            out == timings.val
        IN  /\ out.tag = "Ok"
            /\ Len(out.val) = Len(kept)
            /\ \A i \in 1..Len(kept) :
                   /\ out.val[i].content = kept[i].text
                   /\ out.val[i].t0 = 10 * kept[i].t0
                   /\ out.val[i].t1 = 10 * kept[i].t1
                   /\ 0 <= out.val[i].t0
                   /\ out.val[i].t0 <= out.val[i].t1

\* The sentences that remain once those starting with "[" are dropped.
Remaining ==
    SelectSeq(sentences, LAMBDA t : t.content = <<>> \/ Head(t.content) # "[")

RECURSIVE Concat(_)
Concat(ts) == IF ts = <<>> THEN <<>> ELSE Head(ts).content \o Concat(Tail(ts))

\* C27: post-processing yields no content exactly when no sentence
\* remains after the sentences starting with "[" are dropped; otherwise
\* it yields one Timing whose content is that of the remaining sentences,
\* in order, and whose span is from their least t0 to their greatest t1.
C27_ProcessDropsBracketSentences ==
    processed.some =>
        LET out == processed.val
            idx == 1..Len(Remaining)
        IN  /\ ~out.some <=> Remaining = <<>>
            /\ out.some =>
                   /\ out.val.content = Concat(Remaining)
                   /\ \E i \in idx : out.val.t0 = Remaining[i].t0
                   /\ \A i \in idx : out.val.t0 <= Remaining[i].t0
                   /\ \E i \in idx : out.val.t1 = Remaining[i].t1
                   /\ \A i \in idx : out.val.t1 >= Remaining[i].t1

\* Three sentences were processed, the middle one a bracketed remark with
\* the greatest end, and the result spans the other two only.
C27_Witness ==
    /\ processed.some
    /\ processed.val.some
    /\ Len(sentences) = 3
    /\ Head(sentences[2].content) = "["
    /\ sentences[2].t1 = 10
    /\ processed.val.val.t1 = 0
    /\ Len(Remaining) = 2

\* A step at or after a response send on a responses channel whose
\* receiver is gone: the send fails and run_loop returns Err(Error::Send)
\* from it, and after that no command is consumed and run_loop stays
\* returned.
SendFailureStep ==
    /\ (~respOpen /\ pc \in {"send", "exit_send"} /\ pc' # pc) =>
          (/\ pc' = "returned"
           /\ ret' = "Err(Send)"
           /\ commands' = commands
           /\ sent' = sent)
    /\ ret = "Err(Send)" =>
          (/\ pc' = "returned"
           /\ ret' = ret
           /\ Len(log') = Len(log)
           /\ Len(commands') >= Len(commands))

\* C29: once the responses receiver is dropped, a response send of the
\* daemon does not block as long as the process runs, the send fails and
\* run_loop returns Err(Error::Send) from it, and after that no command is
\* consumed and run_loop stays returned.
C29_SendFailureEndsLoop ==
    /\ []((~respOpen /\ pc \in {"send", "exit_send"}
             /\ exit_status = NoneOpt) => ENABLED DaemonSend)
    /\ [][SendFailureStep]_vars

\* The daemon returned from a failed send of the response to its second
\* command while a further command was still queued.
C29_Witness ==
    /\ ~respOpen
    /\ pc = "returned"
    /\ ret = "Err(Send)"
    /\ Len(log) = 2
    /\ commands # <<>>

\* C30: after the callbacks handed over N samples in all, whatever the
\* batches, every callback sent its whole batch and every send to the sink
\* succeeded, the number of samples sent to the sink is within 1 of
\* N * 16000 / (R * C).
C30_EmittedWithinOneOfExpected ==
    LET scaled == emitted * srcRate * channels
        target == fed * TargetHz
    IN  (send_failures = 0 /\ unsent = 0) =>
          /\ scaled - target <= srcRate * channels
          /\ target - scaled <= srcRate * channels

\* A step of one Recording's controller: the value changes only from
\* Stopped to Started by start(), from Started to Recording by the capture
\* thread once the stream plays, and from Recording to Stopped by stop().
ControllerStep ==
    ctl' # ctl =>
        \/ ctl = "Stopped" /\ ctl' = "Started" /\ caller = "created"
        \/ /\ ctl = "Started" /\ ctl' = "Recording"
           /\ cap = "signal" /\ stream = "playing"
        \/ ctl = "Recording" /\ ctl' = "Stopped" /\ caller = "started"

\* C31: the controller of a Recording holds Stopped until start() is
\* called and changes only Stopped -> Started (start), Started ->
\* Recording (capture thread, stream playing), Recording -> Stopped
\* (stop); the capture thread has no stream before Started was written.
C31_ControllerTransitions ==
    /\ [](caller = "created" => ctl = "Stopped" /\ stream = "none")
    /\ [][ControllerStep]_vars

\* A Recording went through start() and stop() and holds Stopped again.
C31_Witness ==
    /\ caller = "stopped"
    /\ ctl = "Stopped"
    /\ stream = "dropped"
    /\ stopRes.some
    /\ stopRes.val.ok

\* C36: start() returns in every execution: the caller of start() is
\* never left waiting for Recording after the capture thread, the only
\* writer of Recording, has ended with an error.
C36_StartNeverLeftWaiting ==
    ~(/\ caller = "start_wait"
      /\ cap = "done"
      /\ capRes # "Ok(cfg)"
      /\ ~ENABLED RecStartReturn)

\* A step of the threads that use one Recording's controller: a notify
\* finds at most one thread blocked in wait_until; a wait_until returns
\* only when the stored value is the awaited one; the awaited value, once
\* stored, stays until the waiting thread has returned.
NotifierStep ==
    /\ ctl' # ctl => Cardinality(asleep) <= 1
    /\ (caller = "start_wait" /\ caller' # caller) => ctl = "Recording"
    /\ (cap = "wait_started" /\ cap' # cap) => ctl = "Started"
    /\ (cap = "wait_stopped" /\ cap' # cap) => ctl = "Stopped"
    /\ \A t \in Waiting : wait_until(ctl, Awaited(t)) => ctl' = ctl

\* C39: at every notify on a Recording's controller at most one thread
\* is blocked in wait_until, and notify_one wakes it: no thread stays
\* blocked in cvar.wait while the stored value is the one it waits for,
\* wait_until(v) returns only when the stored value is v, and a written
\* value is not overwritten before its waiter has returned.
C39_SingleWaiterNeverMissesValue ==
    /\ [](\A t \in asleep : t \in Waiting /\ ~wait_until(ctl, Awaited(t)))
    /\ [][NotifierStep]_vars

\* The capture thread and the caller of start() each blocked in cvar.wait,
\* each was woken by the notify of its value, and start() has returned.
C39_Witness ==
    /\ caller = "started"
    /\ ctl = "Recording"
    /\ asleep = {}
    /\ woken = {"caller", "capture"}

\* The jobs the worker has processed: those it took, but for the one the
\* thread ended on before an entry was made for it, because its model
\* failed to load or because job.duration() panicked.
ProcessedJobs ==
    IF wkPc \in {"load_failed", "duration_panicked"}
    THEN SubSeq(pulled, 1, Len(pulled) - 1)
    ELSE pulled

\* The models of a sequence of jobs, each at its first occurrence.
RECURSIVE FirstModels(_)
FirstModels(js) ==
    IF js = <<>> THEN <<>>
    ELSE LET before == FirstModels(SubSeq(js, 1, Len(js) - 1))
             m == js[Len(js)].model
         IN  IF \E i \in 1..Len(before) : before[i] = m THEN before
             ELSE Append(before, m)

C33_OneResultPerJobInOrder ==
    wkPc # "transcribe" =>
        /\ Len(results_sent) = Len(pulled)
        /\ \A i \in 1..Len(pulled) : results_sent[i].id = pulled[i].id

\* C37: at most one job is in flight, no job and no result is queued when
\* a job is submitted, and every result taken is the result of the job
\* submitted last.
C37_ResultBelongsToOwnJob ==
    /\ submitted - Len(consumed) <= 1
    /\ Len(from_recordings) <= 1
    /\ subPc = "ready" =>
          /\ whisper_output = <<>>
          /\ from_recordings = <<>>
          /\ submitted = Len(consumed)
    /\ \A i \in 1..Len(consumed) :
          consumed[i].job = i /\ consumed[i].result.id = i

\* Two jobs were submitted one after the other and each one's result was
\* taken before anything else was submitted.
C37_Witness ==
    /\ Len(consumed) = 2
    /\ consumed[2].result.id = 2
    /\ subPc = "ready"

\* C40: after every command handle has an arm for, the state
\* run_state_machine holds is the state handle gives when applied once to
\* the state before the command, and the next command starts from the
\* state the one before left: the second application of start, stop or
\* change_mode changes nothing.
C40_StateIsHandleOncePerCommand ==
    \A i \in 1..Len(log) :
        /\ log[i].cmd.type \in HandledKinds =>
               log[i].post = handle(log[i].pre, log[i].cmd).st
        /\ log[i].pre = IF i = 1 THEN DefaultState ELSE log[i - 1].post

\* A Start, a Stop and then a Mode were accepted, each changing the state.
C40_Witness ==
    /\ Len(log) >= 3
    /\ log[1].cmd.type = "start" /\ log[1].post.audio.tag = "Started"
    /\ log[2].cmd.type = "stop" /\ log[2].post.audio.tag = "Stopped"
    /\ log[3].cmd.type = "mode" /\ log[3].post.mode # log[3].pre.mode

\* C35: at every command boundary of the daemon loop a Recording handle
\* exists exactly when the state machine is running.
C35_RecordingExistsIffRunning ==
    pc = "recv" => (rec.some <=> running(state))

\* C38: every response a handler received is the daemon's response to
\* the command that handler sent.
C38_HandlerGetsOwnResponse ==
    \A h \in Handlers :
        \A i \in 1..Len(webGot[h]) : webGot[h][i].got = webGot[h][i].own

\* C34: once the send of a sample to the sink has failed in a callback,
\* an AudioMessage::Error has been put on the same channel for every
\* failed send and the callback has not aborted.
C34_SendFailureIsReportedInBand ==
    send_failures > 0 =>
        /\ errors_sent = send_failures
        /\ dspPc = "running"
====
